---- MODULE Spec2Model ----
(***************************************************************************)
(* Model of mcp-server-llmling: the notification dispatcher and its        *)
(* tracked asyncio tasks (server.py), the registry observers               *)
(* (observers.py), the server lifecycle start()/shutdown() (server.py) and *)
(* the config-injection gateway (injection/routes.py).                     *)
(*                                                                         *)
(* asyncio is modelled as its event loop: a coroutine runs atomically from *)
(* one await to the next; the loop runs the handles of its ready queue in  *)
(* FIFO order (a new task's first step, the wake-up of a task whose await  *)
(* was cancelled, a done-callback: each is queued with call_soon);         *)
(* Task.cancel() only requests the cancellation, which is delivered at the *)
(* task's next step; the completion of a send is an I/O event, which can   *)
(* come at any time.                                                       *)
(***************************************************************************)
EXTENDS Integers, Sequences, FiniteSets, TLC

VARIABLES
    registry,    \* runtime._resource_registry / _tool_registry / _prompt_registry
    attached,    \* which observers' handlers are connected to their registry
    subs,        \* LLMLingServer._subscriptions (a defaultdict(set))
    tasks,       \* every task created so far, indexed by creation order
    tracked,     \* LLMLingServer._tasks
    ready,       \* the loop's ready queue: handles [h, id], run in FIFO order
    call,        \* the latest call of a mutator or of notify_progress: its outcome
    focus,       \* the notification source this run follows
    reqctx,      \* whether this run's callers run inside a request context
    pc,          \* where start() / shutdown() stands
    inj,         \* the task start() creates for injection_server.start()
    via,         \* how shutdown() was entered: from start() or called directly
    pending,     \* the exception transport.serve() raised into start()
    startRes,    \* how start() ended
    sdRes,       \* how shutdown() ended
    snap,        \* the tasks handed to asyncio.gather by shutdown()
    steps,       \* the steps of the shutdown sequence executed so far
    atcall,      \* the unfinished tasks of _tasks when shutdown() was invoked
    opts,        \* the arguments the server was constructed and started with
    resp,        \* the gateway's answer to the latest bulk update request
    oplog,       \* the operations on the registries so far, and what they led to
    replies,     \* the gateway's answers to the single-component requests so far
    ws           \* one connection of the gateway's websocket endpoint

dvars == <<registry, attached, subs, tasks, tracked, ready, call, focus, reqctx>>
lvars == <<pc, inj, via, pending, startRes, sdRes, snap, steps, atcall, opts>>
gvars == <<resp, oplog, replies, ws>>
vars == <<dvars, lvars, gvars>>

---------------------------------------------------------------------------
\* Bounds of the model.
MaxTasks == 2      \* tasks created in one run of the dispatcher
MaxNames == 3      \* component names per registry
MaxVal == 2        \* distinct component values
MaxSessions == 1   \* client sessions that can subscribe
MaxUris == 1       \* resource uris clients subscribe to
MaxOps == 3        \* operations on a registry in one run of the observers

\* No run creates more tasks than this: an operation leads to at most two.
TaskCap == MaxTasks + MaxOps + MaxOps

Kinds == {"resource", "tool", "prompt"}
\* The sources of notifications: the three registries and notify_progress.
\* They share nothing but the tracked set, which treats all tasks alike, so
\* one run follows one of them (focus, chosen by Init), with its callers
\* either all inside a request context or all outside one (reqctx).
Sources == Kinds \cup {"progress"}
Names == 1..MaxNames
Values == 1..MaxVal
Sessions == 1..MaxSessions
SubUris == 1..MaxUris
Absent == 0
\* The dispatcher never reads a component's name, except to derive the uri
\* of a changed resource: its specification mutates one name per registry.
Watched == {1}

\* except <cls>: catches exc (CancelledError derives from BaseException only).
IsInstance(exc, cls) ==
    \/ exc = cls
    \/ cls = "Exception" /\ exc \in {"RuntimeError", "KeyError", "ValueError"}
    \/ cls = "BaseException"

\* The except clauses of a try statement, in order: the log level of the
\* first clause that catches exc, or "raise" when none does.
Catch(clauses, exc) ==
    LET caught == {i \in 1..Len(clauses) : IsInstance(exc, clauses[i].cls)}
    IN IF caught = {} THEN "raise"
       ELSE clauses[CHOOSE i \in caught : \A j \in caught : i <= j].log

\* Faulty variant: a notify_* coroutine without its try statement.
NoExceptClauses == << >>

ExceptListChanged ==
    << [cls |-> "RuntimeError", log |-> "debug"],
       [cls |-> "Exception", log |-> "error"] >>

ExceptResourceChange == << [cls |-> "Exception", log |-> "error"] >>

ExceptProgress == << [cls |-> "Exception", log |-> "error"] >>

\* Faulty variant: a session that is reachable from every context.
current_session_anywhere(ctx) == "session"

\* LLMLingServer.current_session: the session of the request context, or
\* RuntimeError when the lookup fails.  The request context is a context
\* variable: ctx says whether the calling context holds one (a task inherits
\* the context of the code that created it).
current_session(ctx) == IF ctx THEN "session" ELSE "RuntimeError"

\* `uri in self._subscriptions`: membership of the key.
InSubscriptions(table, uri) == table[uri].present

\* Faulty variant: a keyed read, self._subscriptions[uri], for which the
\* defaultdict creates the missing entry.
after_getitem(table, uri) ==
    [table EXCEPT ![uri] = IF @.present THEN @ ELSE [present |-> TRUE, sessions |-> {}]]

\* The table after `uri in self._subscriptions`: the membership test of a
\* defaultdict does not call its default factory.
after_contains(table, uri) == table

\* The variant of a resource value: a replace can change it.
Loaders == {"text", "path"}
VariantOf(resource) == IF resource % 2 = 1 THEN "text" ELSE "path"

\* runtime.get_resource_loader(resource): the loader is looked up by the
\* variant of the resource it is given.
get_resource_loader(resource) == VariantOf(resource)

\* loader.create_uri(name=key): each loader has its own uri scheme, so the
\* uris two loaders derive for one name differ.
CreateUri(loader, name) == IF loader = "text" THEN name ELSE name + MaxNames

\* The uris of the model: those the loaders derive and those clients
\* subscribe to.
Uris == {CreateUri(l, n) : l \in Loaders, n \in Names} \cup SubUris

---------------------------------------------------------------------------
\* Tasks.  kind names the coroutine the task runs.
Fates == {"ok", "Exception", "RuntimeError"}   \* how the session's send ends
Terminal == {"done", "failed", "cancelled"}

NewTask(kind, uri, ctx, parent) ==
    [kind |-> kind, st |-> "pending", uri |-> uri, ctx |-> ctx,
     cancelReq |-> FALSE, sent |-> FALSE, log |-> "none", parent |-> parent]

Ids == 1..Len(tasks)
IsTerminal(t) == tasks[t].st \in Terminal

Handle(h, i) == [h |-> h, id |-> i]

\* The tasks whose done-callback (_tasks.discard) is queued.
cbq == {i \in Ids : \E k \in 1..Len(ready) : ready[k] = Handle("cb", i)}

\* LLMLingServer._create_task: asyncio.create_task (the first step is
\* queued), then _tasks.add; the discard callback registered here runs as
\* DoneCallback.
create_task(ts, tr, rq, rec) ==
    [tasks |-> Append(ts, rec), tracked |-> tr \cup {Len(ts) + 1},
     ready |-> Append(rq, Handle("start", Len(ts) + 1))]

---------------------------------------------------------------------------
\* The notify_* coroutines up to their first await.  The result says how
\* the task goes on: st, whether the session's send was invoked, what was
\* logged, and the coroutine handed to _create_task ("none" when there is
\* none).
Started(st, sent, log, child) == [st |-> st, sent |-> sent, log |-> log, child |-> child]

\* How a coroutine ends when exc is raised inside its try block.
Ends(clauses, exc) ==
    LET c == Catch(clauses, exc)
    IN IF c = "raise"
       THEN [st |-> IF exc = "CancelledError" THEN "cancelled" ELSE "failed", log |-> "none"]
       ELSE [st |-> "done", log |-> c]

notify_resource_list_changed(ctx) ==
    IF current_session(ctx) = "RuntimeError"
    THEN LET e == Ends(ExceptListChanged, "RuntimeError")
         IN Started(e.st, FALSE, e.log, "none")
    ELSE Started("waiting", TRUE, "none", "none")

notify_resource_change(uri, ctx, table) ==
    IF ~InSubscriptions(table, uri) THEN Started("done", FALSE, "none", "none")
    ELSE IF current_session(ctx) = "RuntimeError"
    THEN LET e == Ends(ExceptResourceChange, "RuntimeError")
         IN Started(e.st, FALSE, e.log, "none")
    ELSE Started("waiting", TRUE, "none", "none")

notify_prompt_list_changed(ctx) ==
    IF current_session(ctx) = "RuntimeError"
    THEN LET e == Ends(ExceptListChanged, "RuntimeError")
         IN Started(e.st, FALSE, e.log, "none")
    ELSE Started("done", FALSE, "none", "send_prompt")

\* Faulty variant: the send is awaited and scheduled as well.
notify_tool_list_changed_twice(ctx) ==
    IF current_session(ctx) = "RuntimeError"
    THEN Started("done", FALSE, "debug", "none")
    ELSE Started("waiting", TRUE, "none", "send_tool")

notify_tool_list_changed(ctx) ==
    IF current_session(ctx) = "RuntimeError"
    THEN LET e == Ends(ExceptListChanged, "RuntimeError")
         IN Started(e.st, FALSE, e.log, "none")
    ELSE Started("done", FALSE, "none", "send_tool")

\* session.send_*(): the coroutine of the session; the write is its await.
session_send == Started("waiting", TRUE, "none", "none")

FirstStep(t, table) ==
    CASE t.kind = "res_list" -> notify_resource_list_changed(t.ctx)
      [] t.kind = "res_change" -> notify_resource_change(t.uri, t.ctx, table)
      [] t.kind = "prompt_list" -> notify_prompt_list_changed(t.ctx)
      [] t.kind = "tool_list" -> notify_tool_list_changed(t.ctx)
      [] OTHER -> session_send

\* The except clauses around the await of a coroutine of this kind.
ClausesOf(kind) ==
    CASE kind = "res_list" -> ExceptListChanged
      [] kind = "res_change" -> ExceptResourceChange
      [] OTHER -> << >>

\* The table after the first step of a task: only notify_resource_change
\* touches it.
TableAfter(t, table) ==
    IF t.kind = "res_change" /\ ~t.cancelReq THEN after_contains(table, t.uri) ELSE table

\* The loop runs a task's first step: a cancellation requested before it
\* cancels the task without running the coroutine.
TaskStart(i) ==
    /\ ready # << >>
    /\ Head(ready) = Handle("start", i)
    /\ LET t == tasks[i]
           r == FirstStep(t, subs)
           me == [t EXCEPT !.st = r.st, !.sent = r.sent, !.log = r.log]
           rq == Tail(ready)
       IN IF t.cancelReq
          THEN /\ tasks' = [tasks EXCEPT ![i].st = "cancelled"]
               /\ ready' = Append(rq, Handle("cb", i))
               /\ UNCHANGED tracked
          ELSE IF r.child = "none"
          THEN /\ tasks' = [tasks EXCEPT ![i] = me]
               /\ ready' = IF r.st \in Terminal THEN Append(rq, Handle("cb", i)) ELSE rq
               /\ UNCHANGED tracked
          ELSE /\ Len(tasks) < TaskCap
               /\ LET c == create_task([tasks EXCEPT ![i] = me], tracked, rq,
                                       NewTask(r.child, 0, t.ctx, i))
                  IN /\ tasks' = c.tasks
                     /\ tracked' = c.tracked
                     /\ ready' = Append(c.ready, Handle("cb", i))
    /\ subs' = TableAfter(tasks[i], subs)
    /\ UNCHANGED <<registry, attached, call, focus, reqctx, lvars, gvars>>

\* The awaited send completes, with fate as its outcome, and the task goes
\* on from its await.
TaskResume(i, fate) ==
    /\ i \in Ids
    /\ tasks[i].st = "waiting"
    /\ ~tasks[i].cancelReq
    /\ LET e == IF fate = "ok" THEN [st |-> "done", log |-> "none"]
                ELSE Ends(ClausesOf(tasks[i].kind), fate)
       IN tasks' = [tasks EXCEPT ![i].st = e.st, ![i].log = e.log]
    /\ ready' = Append(ready, Handle("cb", i))
    /\ UNCHANGED <<registry, attached, subs, tracked, call, focus, reqctx, lvars, gvars>>

\* The loop wakes a task whose await was cancelled: CancelledError is
\* raised at the await.
TaskWake(i) ==
    /\ ready # << >>
    /\ Head(ready) = Handle("wake", i)
    /\ LET e == Ends(ClausesOf(tasks[i].kind), "CancelledError")
       IN tasks' = [tasks EXCEPT ![i].st = e.st, ![i].log = e.log]
    /\ ready' = Append(Tail(ready), Handle("cb", i))
    /\ UNCHANGED <<registry, attached, subs, tracked, call, focus, reqctx, lvars, gvars>>

\* What the model keeps of a task once its done-callback has run: the task
\* is finished and nothing refers to it any more; st says how it ended.
Gone(st) ==
    [kind |-> "gone", st |-> st, uri |-> 0, ctx |-> FALSE,
     cancelReq |-> FALSE, sent |-> FALSE, log |-> "none", parent |-> 0]

\* Faulty variant: a done-callback that leaves the task in _tasks.
DoneCallbackKeeps(i) ==
    /\ ready # << >>
    /\ Head(ready) = Handle("cb", i)
    /\ ready' = Tail(ready)
    /\ tasks' = [tasks EXCEPT ![i] = Gone(tasks[i].st)]
    /\ UNCHANGED <<registry, attached, subs, tracked, call, focus, reqctx, lvars, gvars>>

\* task.add_done_callback(self._tasks.discard), run by the loop.
DoneCallback(i) ==
    /\ ready # << >>
    /\ Head(ready) = Handle("cb", i)
    /\ ready' = Tail(ready)
    /\ tracked' = tracked \ {i}
    /\ tasks' = [tasks EXCEPT ![i] = Gone(tasks[i].st)]
    /\ UNCHANGED <<registry, attached, subs, call, focus, reqctx, lvars, gvars>>

---------------------------------------------------------------------------
\* The registries (evented mappings name -> value).  An operation yields the
\* new entry and the event it emits: "added", "changed", "removed", "none"
\* (a value stored again emits nothing) or "KeyError" (raised to the caller).
\* args are the values the signal emits after the key: added(key, value),
\* changed(key, before, value), removed(key, value).
Events == {"added", "changed", "removed"}

RegistrySet(old, v) ==
    [new |-> v,
     ev |-> IF old = Absent THEN "added" ELSE IF old # v THEN "changed" ELSE "none",
     args |-> IF old = Absent THEN << v >> ELSE IF old # v THEN << old, v >> ELSE << >>]

\* Faulty variant: a removal that ignores a missing name.
RegistryDelPop(old) ==
    [new |-> Absent, ev |-> IF old = Absent THEN "none" ELSE "removed",
     args |-> IF old = Absent THEN << >> ELSE << old >>]

RegistryDel(old) ==
    [new |-> Absent, ev |-> IF old = Absent THEN "KeyError" ELSE "removed",
     args |-> IF old = Absent THEN << >> ELSE << old >>]

\* The observers' handlers: what the handler hands to _create_task, and
\* the exception it raises to the emitting registry ("none" when it
\* returns).  loaderOk: whether runtime.get_resource_loader / create_uri
\* succeed; ctx, fate: the calling context and the way a send on its session
\* would end (a handler reads neither: it only schedules).
Handled(exc, spawn) == [exc |-> exc, spawn |-> spawn]
Coro(kind, uri) == [kind |-> kind, uri |-> uri]

\* Faulty variant: a resource observer that answers every event with a list
\* notification.
ResourceObserverListOnly(ev, key, resource, loaderOk, ctx, fate) ==
    Handled("none", << Coro("res_list", 0) >>)

ResourceObserver(ev, key, resource, loaderOk, ctx, fate) ==
    CASE ev = "added" -> Handled("none", << Coro("res_list", 0) >>)
      [] ev = "removed" -> Handled("none", << Coro("res_list", 0) >>)
      [] ev = "changed" ->
           IF loaderOk
           THEN LET loader == get_resource_loader(resource)
                IN Handled("none", << Coro("res_change", CreateUri(loader, key)) >>)
           ELSE Handled("LoaderError", << >>)

\* Faulty variant: a prompt observer that answers a modification with a
\* per-item notification.
PromptObserverPerItem(ev, key, resource, loaderOk, ctx, fate) ==
    IF ev = "changed"
    THEN Handled("none", << Coro("res_change", CreateUri(get_resource_loader(resource), key)) >>)
    ELSE Handled("none", << Coro("prompt_list", 0) >>)

PromptObserver(ev, key, resource, loaderOk, ctx, fate) ==
    Handled("none", << Coro("prompt_list", 0) >>)

\* Faulty variant: a handler that runs the notification inline, so that the
\* failure of its send reaches the registry, instead of scheduling it.
ToolObserverAwaits(ev, key, resource, loaderOk, ctx, fate) ==
    Handled(IF ctx /\ fate # "ok" THEN fate ELSE "none", << >>)

ToolObserver(ev, key, resource, loaderOk, ctx, fate) ==
    Handled("none", << Coro("tool_list", 0) >>)

Observer(kind, ev, key, resource, loaderOk, ctx, fate) ==
    CASE kind = "resource" -> ResourceObserver(ev, key, resource, loaderOk, ctx, fate)
      [] kind = "prompt" -> PromptObserver(ev, key, resource, loaderOk, ctx, fate)
      [] kind = "tool" -> ToolObserver(ev, key, resource, loaderOk, ctx, fate)

\* Emission of one registry event to the attached observer: the tasks, the
\* tracked set and the handler's outcome afterwards.  A handler is called
\* with as many of the emitted arguments as it has parameters: the handlers
\* take two, the key and the first value after it.
Emit(ts, tr, rq, att, kind, sig, key, loaderOk, ctx, fate) ==
    IF sig.ev \in Events /\ att[kind]
    THEN LET h == Observer(kind, sig.ev, key, sig.args[1], loaderOk, ctx, fate)
         IN IF Len(h.spawn) = 0
            THEN [tasks |-> ts, tracked |-> tr, ready |-> rq, exc |-> h.exc, spawned |-> 0,
                  coros |-> h.spawn, item |-> sig.args[1]]
            ELSE LET c == create_task(ts, tr, rq,
                                      NewTask(h.spawn[1].kind, h.spawn[1].uri, ctx, 0))
                 IN [tasks |-> c.tasks, tracked |-> c.tracked, ready |-> c.ready,
                     exc |-> h.exc, spawned |-> Len(c.tasks) - Len(ts), coros |-> h.spawn,
                     item |-> sig.args[1]]
    ELSE [tasks |-> ts, tracked |-> tr, ready |-> rq, exc |-> "none", spawned |-> 0,
          coros |-> << >>, item |-> Absent]

\* The entry of the log for one operation on a registry: the event the
\* registry emitted ("none", "KeyError" or "rejected" when it emitted none),
\* whether an attached observer handled it, the exception the handler
\* raised, the coroutines the handler handed to _create_task, in order, and
\* the value the handler was called with.
Logged(kind, name, ev, att, e) ==
    [kind |-> kind, name |-> name, ev |-> ev, handled |-> (ev \in Events /\ att[kind]),
     exc |-> e.exc, coros |-> e.coros, item |-> e.item]

\* The record of a call: the registry written ("progress" for
\* notify_progress), whether an observer handled an event of it, the
\* exception that reached the caller, whether the registry holds what the
\* caller asked for, and the number of tasks scheduled.
NoCall ==
    [site |-> "none", observed |-> FALSE, ctx |-> FALSE,
     exc |-> "none", applied |-> FALSE, spawned |-> 0]

\* One mutation of a registry from a call site: registry[name] = v, or
\* del registry[name].
Mutate(kind, op, name, v, loaderOk, ctx, fate) ==
    LET old == registry[kind][name]
        r == IF op = "set" THEN RegistrySet(old, v) ELSE RegistryDel(old)
        new == IF r.ev = "KeyError" THEN old ELSE r.new
        e == Emit(tasks, tracked, ready, attached, kind, r, name, loaderOk, ctx, fate)
    IN /\ Len(e.tasks) <= TaskCap
       /\ registry' = [registry EXCEPT ![kind][name] = new]
       /\ oplog' = Append(oplog, Logged(kind, name, r.ev, attached, e))
       /\ tasks' = e.tasks
       /\ tracked' = e.tracked
       /\ ready' = e.ready
       /\ call' = [site |-> kind, observed |-> (r.ev \in Events /\ attached[kind]),
                   ctx |-> ctx,
                   exc |-> IF r.ev = "KeyError" THEN "KeyError" ELSE e.exc,
                   applied |-> (r.ev # "KeyError" /\ new = r.new),
                   spawned |-> e.spawned]
       /\ UNCHANGED <<attached, subs, focus, reqctx, lvars, resp, replies, ws>>

---------------------------------------------------------------------------
\* The subscription table.  Its writers are the protocol's subscribe and
\* unsubscribe handlers: subscribing adds the session under the uri (the
\* defaultdict creates the entry), unsubscribing removes the session and may
\* leave the entry empty, and empty entries are pruned lazily.
NoEntry == [present |-> FALSE, sessions |-> {}]

Subscribe(uri, s) ==
    /\ s \notin subs[uri].sessions
    /\ subs' = [subs EXCEPT ![uri] = [present |-> TRUE, sessions |-> @.sessions \cup {s}]]
    /\ UNCHANGED <<registry, attached, tasks, tracked, ready, call, focus, reqctx, lvars, gvars>>

Unsubscribe(uri, s) ==
    /\ s \in subs[uri].sessions
    /\ subs' = [subs EXCEPT ![uri].sessions = @ \ {s}]
    /\ UNCHANGED <<registry, attached, tasks, tracked, ready, call, focus, reqctx, lvars, gvars>>

Prune(uri) ==
    /\ subs[uri].present
    /\ subs[uri].sessions = {}
    /\ subs' = [subs EXCEPT ![uri] = NoEntry]
    /\ UNCHANGED <<registry, attached, tasks, tracked, ready, call, focus, reqctx, lvars, gvars>>

---------------------------------------------------------------------------
\* LLMLingServer.notify_progress(token, progress, total, description): a
\* plain method; the sends it schedules, and what its try statement does
\* with the failure of current_session.
\* Faulty variant: the description is never sent.
notify_progress_no_log(ctx, description) ==
    IF current_session(ctx) = "RuntimeError"
    THEN [spawn |-> << >>, log |-> Catch(ExceptProgress, "RuntimeError")]
    ELSE [spawn |-> << "send_progress" >>, log |-> "none"]

notify_progress(ctx, description) ==
    IF current_session(ctx) = "RuntimeError"
    THEN [spawn |-> << >>, log |-> Catch(ExceptProgress, "RuntimeError")]
    ELSE [spawn |-> IF description THEN << "send_progress", "send_log" >>
                    ELSE << "send_progress" >>,
          log |-> "none"]

RECURSIVE CreateAll(_, _, _, _, _)
CreateAll(ts, tr, rq, kinds, ctx) ==
    IF kinds = << >> THEN [tasks |-> ts, tracked |-> tr, ready |-> rq]
    ELSE LET c == create_task(ts, tr, rq, NewTask(Head(kinds), 0, ctx, 0))
         IN CreateAll(c.tasks, c.tracked, c.ready, Tail(kinds), ctx)

NotifyProgress(ctx, description) ==
    LET r == notify_progress(ctx, description)
        c == CreateAll(tasks, tracked, ready, r.spawn, ctx)
    IN /\ Len(c.tasks) <= MaxTasks
       /\ tasks' = c.tasks
       /\ tracked' = c.tracked
       /\ ready' = c.ready
       /\ call' = [site |-> "progress", observed |-> FALSE, ctx |-> ctx,
                   exc |-> IF r.log = "raise" THEN "RuntimeError" ELSE "none",
                   applied |-> FALSE, spawned |-> Len(r.spawn),
                   description |-> description]
       /\ UNCHANGED <<registry, attached, subs, focus, reqctx, lvars, gvars>>

---------------------------------------------------------------------------
\* LLMLingServer.start() and shutdown().  A coroutine runs from one await to
\* the next in one step; its awaits are transport.serve(), the injection
\* task, injection_server.stop(), transport.shutdown(), asyncio.gather() and
\* runtime.shutdown().  The outcome of a collaborator's call (it returns or
\* it raises) is an input of the step that ends the await.
Perms(S) ==
    {f \in [1..Cardinality(S) -> S] : \A a, b \in 1..Cardinality(S) : a # b => f[a] # f[b]}

Range(f) == {f[k] : k \in DOMAIN f}

\* for task in self._tasks: task.cancel().  Cancelling a finished task does
\* nothing; a task waiting at an await is woken up (the wake-ups are queued
\* in the order the set is iterated, ord).
Cancellable(ts, tr) == {i \in tr : ts[i].st \notin Terminal}
Awaiting(ts, tr) == {i \in tr : ts[i].st = "waiting" /\ ~ts[i].cancelReq}

cancel_tasks(ts, tr, rq, ord) ==
    [tasks |-> [i \in DOMAIN ts |->
                   IF i \in Cancellable(ts, tr) THEN [ts[i] EXCEPT !.cancelReq = TRUE]
                   ELSE ts[i]],
     ready |-> rq \o [k \in 1..Len(ord) |-> Handle("wake", ord[k])]]

\* Faulty variant: a shutdown() that does not wait for the cancelled tasks.
gather_skipped(ts, awaited) == TRUE

\* await asyncio.gather(*self._tasks, return_exceptions=True) returns once
\* every task it was given is done; gather's own callback on a task runs
\* after the discard callback, which was registered first.
gather_done(ts, awaited) == \A i \in awaited : ts[i].kind = "gone"

\* runtime.remove_observer(...) for the three observers, in the order of the
\* code; k is the call that raises (0: none does).  The calls are handed
\* observer.events, not the handlers: the handlers were connected to the
\* registry's signals by the observers' constructors (events.added.connect
\* and so on), nothing disconnects them, and a call that returns leaves
\* them connected.
DetachOrder == << "resource", "prompt", "tool" >>
DetachSteps == << "detach_resource", "detach_prompt", "detach_tool" >>

remove_observers(att, k) ==
    LET n == IF k = 0 THEN Len(DetachOrder) ELSE k
    IN [attached |-> att,
        steps |-> SubSeq(DetachSteps, 1, n),
        raised |-> k # 0]

\* shutdown() from the removal of the observers on: to the await of
\* runtime.shutdown(), or through the finally clause when a removal raises.
detach_then(att, log, k) ==
    LET d == remove_observers(att, k)
    IN IF d.raised
       THEN [attached |-> d.attached, steps |-> log \o d.steps \o << "clear_tasks" >>,
             pc |-> "end", sdRes |-> "raised"]
       ELSE [attached |-> d.attached, steps |-> log \o d.steps,
             pc |-> "in_runtime", sdRes |-> "none"]

\* How start() ends once shutdown() has ended as sd: an exception of its try
\* block or of its finally clause leaves start().
start_result(entered, thrown, sd) ==
    IF entered # "start" THEN "none"
    ELSE IF thrown # "none" \/ sd = "raised" THEN "raised" ELSE "returned"

\* Faulty variant: a shutdown() that does not stop the injection server.
shutdown_entry_no_stop(unit) == "in_transport"

\* Where shutdown() first awaits.
shutdown_entry(unit) == IF unit = "off" THEN "in_transport" ELSE "in_stop"

\* start() up to its await of transport.serve(): the injection task is
\* created when the server has an injection server.
Start ==
    /\ pc = "new"
    /\ pc' = "serving"
    /\ via' = "start"
    /\ IF inj = "unborn"
       THEN /\ inj' = "pending"
            /\ ready' = Append(ready, Handle("inj", 0))
       ELSE UNCHANGED <<inj, ready>>
    /\ UNCHANGED <<registry, attached, subs, tasks, tracked, call, focus, reqctx>>
    /\ UNCHANGED <<pending, startRes, sdRes, snap, steps, atcall, opts, gvars>>

\* The loop runs the first step of the injection task:
\* ConfigInjectionServer.start() returns, or raises (the transport is not
\* the stdio one, uvicorn cannot be imported or configured); a task
\* cancelled before its first step ends cancelled.
InjStart(fails) ==
    /\ ready # << >>
    /\ Head(ready) = Handle("inj", 0)
    /\ ready' = Tail(ready)
    /\ inj' = IF inj = "cancelling" THEN "cancelled"
              ELSE IF fails THEN "failed" ELSE "done"
    /\ (inj = "cancelling" => ~fails)
    /\ UNCHANGED <<registry, attached, subs, tasks, tracked, call, focus, reqctx>>
    /\ UNCHANGED <<pc, via, pending, startRes, sdRes, snap, steps, atcall, opts, gvars>>

\* transport.serve() ends, and start() runs its finally clause up to the
\* next await: the injection task is cancelled and awaited (the await of a
\* finished task returns or raises at once; CancelledError is suppressed),
\* then shutdown() is entered.
ServeEnds(raises) ==
    /\ pc = "serving"
    /\ pending' = IF raises THEN "serve" ELSE "none"
    /\ CASE inj = "off" ->
              /\ pc' = shutdown_entry(inj)
              /\ atcall' = Cancellable(tasks, tracked)
              /\ UNCHANGED <<inj, steps, startRes, sdRes>>
         [] inj = "pending" ->
              /\ inj' = "cancelling"
              /\ pc' = "await_unit"
              /\ steps' = steps \o << "unit_cancel" >>
              /\ UNCHANGED <<atcall, startRes, sdRes>>
         [] inj = "done" ->
              /\ pc' = shutdown_entry(inj)
              /\ atcall' = Cancellable(tasks, tracked)
              /\ steps' = steps \o << "unit_cancel", "unit_await" >>
              /\ UNCHANGED <<inj, startRes, sdRes>>
         [] inj = "failed" ->
              /\ pc' = "end"
              /\ steps' = steps \o << "unit_cancel", "unit_await" >>
              /\ startRes' = "raised"
              /\ sdRes' = "skipped"
              /\ UNCHANGED <<inj, atcall>>
    /\ UNCHANGED <<registry, attached, subs, tasks, tracked, ready, call, focus, reqctx>>
    /\ UNCHANGED <<via, snap, opts, gvars>>

\* The cancelled injection task is done: start() goes on to shutdown().
UnitAwaited ==
    /\ pc = "await_unit"
    /\ inj = "cancelled"
    /\ pc' = shutdown_entry(inj)
    /\ atcall' = Cancellable(tasks, tracked)
    /\ steps' = steps \o << "unit_await" >>
    /\ UNCHANGED <<registry, attached, subs, tasks, tracked, ready, call, focus, reqctx>>
    /\ UNCHANGED <<inj, via, pending, startRes, sdRes, snap, opts, gvars>>

\* shutdown() called directly (__aexit__) on a server that was not started.
ShutdownCalled ==
    /\ pc = "new"
    /\ via' = "aexit"
    /\ pc' = shutdown_entry(inj)
    /\ atcall' = Cancellable(tasks, tracked)
    /\ UNCHANGED <<registry, attached, subs, tasks, tracked, ready, call, focus, reqctx>>
    /\ UNCHANGED <<inj, pending, startRes, sdRes, snap, steps, opts, gvars>>

\* await self.injection_server.stop() ends.  An exception leaves the try
\* block: only the finally clause (_tasks.clear()) runs after it.
StopEnds(raises) ==
    /\ pc = "in_stop"
    /\ IF raises
       THEN /\ steps' = steps \o << "gateway_stop", "clear_tasks" >>
            /\ tracked' = {}
            /\ sdRes' = "raised"
            /\ startRes' = start_result(via, pending, "raised")
            /\ pc' = "end"
       ELSE /\ steps' = steps \o << "gateway_stop" >>
            /\ pc' = "in_transport"
            /\ UNCHANGED <<tracked, sdRes, startRes>>
    /\ UNCHANGED <<registry, attached, subs, tasks, ready, call, focus, reqctx>>
    /\ UNCHANGED <<inj, via, pending, snap, atcall, opts, gvars>>

\* await self.transport.shutdown() ends, and shutdown() runs to its next
\* await: with tracked tasks it cancels them and awaits asyncio.gather();
\* with none it removes the observers and awaits runtime.shutdown().
TransportEnds(raises, k, ord) ==
    /\ pc = "in_transport"
    /\ IF raises
       THEN /\ k = 0 /\ ord = << >>
            /\ steps' = steps \o << "transport_stop", "clear_tasks" >>
            /\ tracked' = {}
            /\ sdRes' = "raised"
            /\ startRes' = start_result(via, pending, "raised")
            /\ pc' = "end"
            /\ UNCHANGED <<attached, tasks, ready, snap>>
       ELSE IF tracked # {}
       THEN /\ k = 0 /\ ord \in Perms(Awaiting(tasks, tracked))
            /\ LET c == cancel_tasks(tasks, tracked, ready, ord)
               IN /\ tasks' = c.tasks
                  /\ ready' = c.ready
            /\ snap' = tracked
            /\ steps' = steps \o << "transport_stop", "cancel_tasks" >>
            /\ pc' = "in_gather"
            /\ UNCHANGED <<attached, tracked, sdRes, startRes>>
       ELSE /\ ord = << >>
            /\ LET d == detach_then(attached, steps \o << "transport_stop" >>, k)
               IN /\ attached' = d.attached
                  /\ steps' = d.steps
                  /\ pc' = d.pc
                  /\ sdRes' = d.sdRes
                  /\ startRes' = IF d.pc = "end" THEN start_result(via, pending, d.sdRes)
                                 ELSE startRes
            /\ UNCHANGED <<tasks, tracked, ready, snap>>
    /\ UNCHANGED <<registry, subs, call, focus, reqctx>>
    /\ UNCHANGED <<inj, via, pending, atcall, opts, gvars>>

\* asyncio.gather() returns: self._tasks.clear(), then the observers are
\* removed and runtime.shutdown() is awaited.
GatherEnds(k) ==
    /\ pc = "in_gather"
    /\ gather_done(tasks, snap)
    /\ tracked' = {}
    /\ LET d == detach_then(attached, steps \o << "await_tasks", "clear_gathered" >>, k)
       IN /\ attached' = d.attached
          /\ steps' = d.steps
          /\ pc' = d.pc
          /\ sdRes' = d.sdRes
          /\ startRes' = IF d.pc = "end" THEN start_result(via, pending, d.sdRes)
                         ELSE startRes
    /\ UNCHANGED <<registry, subs, tasks, ready, call, focus, reqctx>>
    /\ UNCHANGED <<inj, via, pending, snap, atcall, opts, gvars>>

\* await self.runtime.shutdown() ends; the finally clause clears _tasks and
\* shutdown() returns, or raises what runtime.shutdown() raised.
RuntimeEnds(raises) ==
    /\ pc = "in_runtime"
    /\ steps' = steps \o << "runtime_shutdown", "clear_tasks" >>
    /\ tracked' = {}
    /\ sdRes' = IF raises THEN "raised" ELSE "returned"
    /\ startRes' = start_result(via, pending, sdRes')
    /\ pc' = "end"
    /\ UNCHANGED <<registry, attached, subs, tasks, ready, call, focus, reqctx>>
    /\ UNCHANGED <<inj, via, pending, snap, atcall, opts, gvars>>

\* The server as constructed: start() and shutdown() not called yet; unit
\* says whether the constructor created an injection server.
\* LLMLingServer.__init__ with its transport and enable_injection
\* arguments, and the raise_exceptions argument start() is called with: an
\* injection server is created when injection is enabled and the transport
\* is the stdio one, otherwise injection_server is None; the constructor
\* raises for neither combination.
LLMLingServer(transport, enable_injection, raise_exceptions) ==
    [transport |-> transport,
     enable_injection |-> enable_injection,
     raise_exceptions |-> raise_exceptions,
     injection_server |-> IF enable_injection /\ transport = "stdio" THEN "unborn" ELSE "off",
     config_error |-> FALSE]

InitLife(unit) ==
    /\ pc = "new"
    /\ inj = unit
    /\ via = "none"
    /\ pending = "none"
    /\ startRes = "none"
    /\ sdRes = "none"
    /\ snap = {}
    /\ steps = << >>
    /\ atcall = {}
    /\ opts = LLMLingServer("stdio", unit = "unborn", FALSE)

---------------------------------------------------------------------------
\* The gateway's bulk update: POST /bulk-update with a ConfigUpdateRequest
\* body.  An entry of the request is ok (it validates and the registry
\* takes it), rejected (it validates, its registration raises) or invalid
\* (it does not validate against the request model, e.g. a resource with an
\* unknown type discriminator).  resources and tools are JSON objects: the
\* names of a batch are distinct, in the order of the payload.
MaxBatch == 3      \* resource entries of one request

ItemKinds == {"ok", "rejected", "invalid"}

Batches(names, n) ==
    UNION {{b \in [1..l -> [name : names, q : ItemKinds]] :
               \A i, j \in 1..l : i # j => b[i].name # b[j].name} : l \in 0..n}

\* ConfigUpdateRequest: resources, tools, replace_existing; val is the
\* value the entries carry.
Requests ==
    [resources : Batches(Names, MaxBatch), tools : Batches(Watched, MaxBatch),
     replace_existing : BOOLEAN, val : Values]

\* Validation of the body against ConfigUpdateRequest, before the endpoint
\* function is called.
model_validate(req) ==
    /\ \A k \in 1..Len(req.resources) : req.resources[k].q # "invalid"
    /\ \A k \in 1..Len(req.tools) : req.tools[k].q # "invalid"

\* Faulty variant: a registration that never replaces an existing name.
register_no_replace(old, item, val, replace) ==
    IF old # Absent \/ item.q # "ok"
    THEN [raised |-> TRUE, new |-> old, ev |-> "none", args |-> << >>]
    ELSE [raised |-> FALSE, new |-> val, ev |-> "added", args |-> << val >>]

\* runtime.register_resource(name, item, replace=...) and
\* _tool_registry.register(name, item, replace=...): an existing name is
\* replaced only with replace; the registry raises for an entry it rejects.
register(old, item, val, replace) ==
    IF (old # Absent /\ ~replace) \/ item.q # "ok"
    THEN [raised |-> TRUE, new |-> old, ev |-> "none", args |-> << >>]
    ELSE LET r == RegistrySet(old, val)
         IN [raised |-> FALSE, new |-> r.new, ev |-> r.ev, args |-> r.args]

Outcome(status, kind, name) == [status |-> status, component_type |-> kind, name |-> name]

\* One loop of bulk_update over the entries of one registry: each entry is
\* registered inside its own try; the registry emits its event to the
\* observer while it stores the entry, so an exception of the handler is
\* caught by the same except clause.
RECURSIVE apply_items(_, _, _, _, _, _, _)
apply_items(acc, kind, items, replace, val, loaderOk, ctx) ==
    IF items = << >> THEN acc
    ELSE LET it == Head(items)
             r == register(acc.registry[kind][it.name], it, val, replace)
             e == Emit(acc.tasks, acc.tracked, acc.ready, acc.attached, kind, r,
                       it.name, loaderOk, ctx, "ok")
             failed == r.raised \/ e.exc # "none"
         IN apply_items(
                [acc EXCEPT !.registry[kind][it.name] = r.new,
                            !.tasks = e.tasks, !.tracked = e.tracked, !.ready = e.ready,
                            !.oplog = Append(@, Logged(kind, it.name,
                                                       IF r.raised THEN "rejected" ELSE r.ev,
                                                       acc.attached, e)),
                            !.results = Append(@, Outcome(IF failed THEN "error" ELSE "success",
                                                          kind, it.name)),
                            !.success = IF failed THEN @ ELSE @ + 1,
                            !.error = IF failed THEN @ + 1 ELSE @],
                kind, Tail(items), replace, val, loaderOk, ctx)

\* Faulty variant: the tools before the resources.
bulk_update_tools_first(acc, req, loaderOk, ctx) ==
    LET a == apply_items(acc, "tool", req.tools, req.replace_existing,
                         req.val, loaderOk, ctx)
    IN apply_items(a, "resource", req.resources, req.replace_existing, req.val, loaderOk, ctx)

\* The endpoint function: the resources, then the tools.
bulk_update(acc, req, loaderOk, ctx) ==
    LET a == apply_items(acc, "resource", req.resources, req.replace_existing,
                         req.val, loaderOk, ctx)
    IN apply_items(a, "tool", req.tools, req.replace_existing, req.val, loaderOk, ctx)

\* No connection of the websocket endpoint.
NoStream == [pc |-> "none"]

NoResp == [status |-> 0, results |-> << >>, summary |-> [success |-> 0, error |-> 0]]

\* One POST /bulk-update: a body that does not validate is answered 422 by
\* the framework and the endpoint function does not run; otherwise the
\* function runs and its BulkUpdateResponse is the 200 answer.
BulkUpdate(req, loaderOk) ==
    /\ resp.status = 0
    /\ IF model_validate(req)
       THEN LET a == bulk_update(
                        [registry |-> registry, tasks |-> tasks, tracked |-> tracked,
                         ready |-> ready, attached |-> attached, oplog |-> oplog,
                         results |-> << >>, success |-> 0, error |-> 0],
                        req, loaderOk, reqctx)
            IN /\ registry' = a.registry
               /\ tasks' = a.tasks
               /\ tracked' = a.tracked
               /\ ready' = a.ready
               /\ oplog' = a.oplog
               /\ resp' = [status |-> 200, req |-> req, results |-> a.results,
                           summary |-> [success |-> a.success, error |-> a.error]]
       ELSE /\ resp' = [status |-> 422, req |-> req, results |-> << >>,
                        summary |-> [success |-> 0, error |-> 0]]
            /\ UNCHANGED <<registry, tasks, tracked, ready, oplog>>
    /\ UNCHANGED <<attached, subs, call, focus, reqctx, lvars, replies, ws>>

---------------------------------------------------------------------------
\* The gateway's endpoints for one component.  The body of a POST is
\* validated against Resource / ToolConfig before the endpoint function is
\* called (422 for a body that does not validate); the function registers
\* with replace=True and answers 400 for any exception of the registration,
\* the exception of an observer's handler included (the registry emits its
\* event after it has stored the entry).
MaxCalls == 3      \* single-component requests in one run of the gateway

\* The answer to one request, with the entry of the name before and after.
Reply(op, kind, name, q, val, status, old, new, listing) ==
    [op |-> op, kind |-> kind, name |-> name, q |-> q, val |-> val, status |-> status,
     before |-> old, after |-> new, listing |-> listing]

add_component(kind, name, q, val, loaderOk, ctx) ==
    LET old == registry[kind][name]
        r == register(old, [name |-> name, q |-> q], val, TRUE)
        e == Emit(tasks, tracked, ready, attached, kind, r, name, loaderOk, ctx, "ok")
    IN IF q = "invalid"
       THEN [registry |-> registry, tasks |-> tasks, tracked |-> tracked, ready |-> ready,
             oplog |-> oplog, reply |-> Reply("add", kind, name, q, val, 422, old, old, {})]
       ELSE [registry |-> [registry EXCEPT ![kind][name] = r.new],
             tasks |-> e.tasks, tracked |-> e.tracked, ready |-> e.ready,
             oplog |-> Append(oplog, Logged(kind, name, IF r.raised THEN "rejected" ELSE r.ev,
                                            attached, e)),
             reply |-> Reply("add", kind, name, q, val,
                             IF r.raised \/ e.exc # "none" THEN 400 ELSE 200,
                             old, r.new, {})]

\* del registry[name] inside try / except KeyError: 404 for a missing name;
\* any other exception is not caught by the endpoint function (500).
remove_component(kind, name, ctx) ==
    LET old == registry[kind][name]
        r == RegistryDel(old)
        new == IF r.ev = "KeyError" THEN old ELSE r.new
        e == Emit(tasks, tracked, ready, attached, kind, r, name, TRUE, ctx, "ok")
    IN [registry |-> [registry EXCEPT ![kind][name] = new],
        tasks |-> e.tasks, tracked |-> e.tracked, ready |-> e.ready,
        oplog |-> Append(oplog, Logged(kind, name, r.ev, attached, e)),
        reply |-> Reply("remove", kind, name, "ok", Absent,
                        IF r.ev = "KeyError" THEN 404
                        ELSE IF e.exc # "none" THEN 500 ELSE 200,
                        old, new, {})]

\* GET /resources: the registered names with their resources.
list_resources ==
    {<<n, registry["resource"][n]>> : n \in {m \in Names : registry["resource"][m] # Absent}}

Answer(a) ==
    /\ Len(replies) < MaxCalls
    /\ registry' = a.registry
    /\ tasks' = a.tasks
    /\ tracked' = a.tracked
    /\ ready' = a.ready
    /\ oplog' = a.oplog
    /\ replies' = Append(replies, a.reply)
    /\ UNCHANGED <<attached, subs, call, focus, reqctx, lvars, resp, ws>>

AddResource(name, q, val, loaderOk) ==
    Answer(add_component("resource", name, q, val, loaderOk, reqctx))

AddTool(name, q, val) == Answer(add_component("tool", name, q, val, TRUE, reqctx))

RemoveResource(name) == Answer(remove_component("resource", name, reqctx))

RemoveTool(name) == Answer(remove_component("tool", name, reqctx))

ListResources ==
    /\ Len(replies) < MaxCalls
    /\ replies' = Append(replies, Reply("list", "resource", Absent, "ok", Absent, 200, Absent, Absent,
                                        list_resources))
    /\ UNCHANGED <<dvars, lvars, resp, oplog, ws>>

---------------------------------------------------------------------------
\* POST /inject-config: the payload's resources, then its tools, each entry
\* validated and registered with replace=True inside one try statement.
\* Faulty variant: an exception of an entry that is dropped, so that the
\* loop goes on.
Swallowed(failed) == FALSE

\* An exception raised for an entry leaves both loops: the except clause is
\* around them, not inside them.
Propagates(failed) == failed

RECURSIVE inject_items(_, _, _, _, _, _)
inject_items(acc, kind, items, val, loaderOk, ctx) ==
    IF items = << >> \/ acc.raised THEN acc
    ELSE LET it == Head(items)
             r == register(acc.registry[kind][it.name], it, val, TRUE)
             e == Emit(acc.tasks, acc.tracked, acc.ready, acc.attached, kind, r,
                       it.name, loaderOk, ctx, "ok")
             nxt == IF it.q = "invalid"
                    THEN [acc EXCEPT !.raised = Propagates(TRUE)]
                    ELSE [acc EXCEPT !.registry[kind][it.name] = r.new,
                                     !.tasks = e.tasks, !.tracked = e.tracked,
                                     !.ready = e.ready,
                                     !.oplog = Append(@, Logged(kind, it.name,
                                                   IF r.raised THEN "rejected" ELSE r.ev,
                                                   acc.attached, e)),
                                     !.raised = Propagates(r.raised \/ e.exc # "none")]
         IN inject_items(nxt, kind, Tail(items), val, loaderOk, ctx)

inject_config(acc, req, loaderOk, ctx) ==
    LET a == inject_items(acc, "resource", req.resources, req.val, loaderOk, ctx)
    IN inject_items(a, "tool", req.tools, req.val, loaderOk, ctx)

\* One POST /inject-config: 200 with the fixed success response, or 400
\* when an exception left the try block.
InjectConfig(req, loaderOk) ==
    /\ replies = << >>
    /\ LET a == inject_config(
                    [registry |-> registry, tasks |-> tasks, tracked |-> tracked,
                     ready |-> ready, attached |-> attached, oplog |-> oplog,
                     raised |-> FALSE],
                    req, loaderOk, reqctx)
       IN /\ registry' = a.registry
          /\ tasks' = a.tasks
          /\ tracked' = a.tracked
          /\ ready' = a.ready
          /\ oplog' = a.oplog
          /\ replies' = << [op |-> "inject", req |-> req, before |-> registry,
                            status |-> IF a.raised THEN 400 ELSE 200] >>
    /\ UNCHANGED <<attached, subs, call, focus, reqctx, lvars, resp, ws>>

---------------------------------------------------------------------------
\* After construction: the registries hold what the configuration gave
\* them (here every name, with value 1), the three observers are attached,
\* nothing is subscribed, no task.
InitDispatcher ==
    /\ registry = [k \in Kinds |-> [n \in Names |-> 1]]
    /\ attached = [k \in Kinds |-> TRUE]
    /\ subs = [u \in Uris |-> NoEntry]
    /\ tasks = << >>
    /\ tracked = {}
    /\ ready = << >>
    /\ call = NoCall
    /\ focus \in Sources
    /\ reqctx \in BOOLEAN

\* The mutations of this specification are those that emit an event to an
\* attached observer.  Inputs that cannot influence the call are fixed to
\* one value: the loader's outcome when no resource "changed" event is
\* handled, the value of a deletion.
\* The tasks a mutation can lead to: the notify_* task and, for the tool and
\* prompt lists inside a request context, the send it hands to _create_task.
Room(kind, ctx) == IF kind \in {"tool", "prompt"} /\ ctx THEN 2 ELSE 1

Relevant(kind, op, name, v, loaderOk, ctx, fate) ==
    LET old == registry[kind][name]
        ev == IF op = "set" THEN RegistrySet(old, v).ev ELSE RegistryDel(old).ev
        fires == ev \in Events /\ attached[kind]
    IN /\ kind = focus
       /\ ctx = reqctx
       /\ Len(tasks) + Room(kind, ctx) <= MaxTasks
       /\ Len(oplog) < MaxOps
       /\ (op = "del" => v = 1)
       /\ (~(fires /\ kind = "resource" /\ ev = "changed") => loaderOk)
       /\ fires

Init ==
    InitDispatcher /\ InitLife("off") /\ resp = NoResp /\ oplog = << >> /\ replies = << >>
       /\ ws = NoStream

Next ==
    \/ \E kind \in Kinds, op \in {"set", "del"}, name \in Watched, v \in Values,
          loaderOk \in BOOLEAN, ctx \in BOOLEAN, fate \in Fates :
          /\ Relevant(kind, op, name, v, loaderOk, ctx, fate)
          /\ Mutate(kind, op, name, v, loaderOk, ctx, fate)
    \/ \E uri \in SubUris, s \in Sessions : focus = "resource" /\ Subscribe(uri, s)
    \/ \E uri \in SubUris, s \in Sessions : focus = "resource" /\ Unsubscribe(uri, s)
    \/ \E uri \in SubUris : focus = "resource" /\ Prune(uri)
    \/ \E ctx \in BOOLEAN, description \in BOOLEAN :
          focus = "progress" /\ ctx = reqctx /\ NotifyProgress(ctx, description)
    \/ \E i \in 1..MaxTasks : TaskStart(i)
    \/ \E i \in 1..MaxTasks, fate \in Fates : TaskResume(i, fate)
    \/ \E i \in 1..MaxTasks : DoneCallback(i)

Spec == Init /\ [][Next]_vars

\* The lifecycle: one start() or one direct shutdown(), with registry
\* mutations and the loop's handles interleaved at every await.  The uri of
\* the watched resource is subscribed (the table is not written here).
InitLifecycle ==
    /\ registry = [k \in Kinds |-> [n \in Names |-> 1]]
    /\ attached = [k \in Kinds |-> TRUE]
    /\ subs = [u \in Uris |->
                  IF u \in Watched THEN [present |-> TRUE, sessions |-> {1}] ELSE NoEntry]
    /\ tasks = << >>
    /\ tracked = {}
    /\ ready = << >>
    /\ call = NoCall
    /\ focus \in Kinds
    /\ reqctx \in BOOLEAN
    /\ \E unit \in {"off", "unborn"} : InitLife(unit)
    /\ resp = NoResp
    /\ oplog = << >>
    /\ replies = << >>
    /\ ws = NoStream

NextLife ==
    \/ \E kind \in Kinds, op \in {"set", "del"}, name \in Watched, v \in Values,
          loaderOk \in BOOLEAN, ctx \in BOOLEAN, fate \in Fates :
          /\ Relevant(kind, op, name, v, loaderOk, ctx, fate)
          /\ Mutate(kind, op, name, v, loaderOk, ctx, fate)
    \/ \E i \in 1..MaxTasks : TaskStart(i)
    \/ \E i \in 1..MaxTasks, fate \in Fates : TaskResume(i, fate)
    \/ \E i \in 1..MaxTasks : TaskWake(i)
    \/ \E i \in 1..MaxTasks : DoneCallback(i)
    \/ Start
    \/ \E fails \in BOOLEAN : InjStart(fails)
    \/ \E raises \in BOOLEAN : ServeEnds(raises)
    \/ UnitAwaited
    \/ ShutdownCalled
    \/ \E raises \in BOOLEAN : StopEnds(raises)
    \/ \E raises \in BOOLEAN, k \in 0..Len(DetachOrder),
          ord \in UNION {Perms(S) : S \in SUBSET (1..MaxTasks)} :
          TransportEnds(raises, k, ord)
    \/ \E k \in 0..Len(DetachOrder) : GatherEnds(k)
    \/ \E raises \in BOOLEAN : RuntimeEnds(raises)

SpecLife == InitLifecycle /\ [][NextLife]_vars

\* The gateway: one bulk update request against a server whose registries
\* hold the watched name, and the tasks it leads to.  The endpoint runs
\* outside any request context of the protocol server.
InitGateway ==
    /\ registry = [k \in Kinds |-> [n \in Names |-> IF n \in Watched THEN 1 ELSE Absent]]
    /\ attached = [k \in Kinds |-> TRUE]
    /\ subs = [u \in Uris |-> NoEntry]
    /\ tasks = << >>
    /\ tracked = {}
    /\ ready = << >>
    /\ call = NoCall
    /\ focus = "resource"
    /\ reqctx = FALSE
    /\ InitLife("unborn")
    /\ resp = NoResp
    /\ oplog = << >>
    /\ replies = << >>
    /\ ws = NoStream

\* The loader's outcome is an input only when a resource "changed" event is
\* handled: an ok entry replaces the watched resource with another value.
LoaderAsked(req) ==
    /\ req.replace_existing
    /\ \E k \in 1..Len(req.resources) :
          /\ req.resources[k].q = "ok"
          /\ registry["resource"][req.resources[k].name] \notin {Absent, req.val}

NextGateway ==
    \/ /\ resp.status = 0
       /\ replies = << >>
       /\ \E req \in Requests, loaderOk \in BOOLEAN :
             /\ (~(model_validate(req) /\ LoaderAsked(req)) => loaderOk)
             /\ BulkUpdate(req, loaderOk)
    \/ /\ resp.status = 0
       /\ replies = << >>
       /\ \E req \in Requests, loaderOk \in BOOLEAN :
             /\ req.replace_existing
             /\ (~LoaderAsked(req) => loaderOk)
             /\ InjectConfig(req, loaderOk)
    \/ \E i \in 1..(MaxBatch + MaxBatch) : TaskStart(i)
    \/ \E i \in 1..(MaxBatch + MaxBatch) : DoneCallback(i)

SpecGateway == InitGateway /\ [][NextGateway]_vars

\* The gateway's endpoints for one component: up to MaxCalls requests on the
\* watched name, and the tasks they lead to.
NextRoutes ==
    \/ \E name \in Watched, q \in ItemKinds, val \in Values, loaderOk \in BOOLEAN :
          /\ (~(q = "ok" /\ registry["resource"][name] \notin {Absent, val}) => loaderOk)
          /\ AddResource(name, q, val, loaderOk)
    \/ \E name \in Watched, q \in ItemKinds, val \in Values : AddTool(name, q, val)
    \/ \E name \in Watched : RemoveResource(name)
    \/ \E name \in Watched : RemoveTool(name)
    \/ ListResources
    \/ \E i \in 1..MaxCalls : TaskStart(i)
    \/ \E i \in 1..MaxCalls : DoneCallback(i)

SpecRoutes == InitGateway /\ [][NextRoutes]_vars

\* The observers: up to MaxOps operations of a call site on the watched name
\* of one registry (an addition, a replacement, a replacement by the object
\* already stored, a removal, the removal of a missing name), and the tasks
\* they lead to.  The name is registered or not when the run begins.
InitObservers ==
    /\ \E v0 \in {Absent, 1} :
          registry = [k \in Kinds |-> [n \in Names |-> IF n \in Watched THEN v0 ELSE Absent]]
    /\ attached = [k \in Kinds |-> TRUE]
    /\ subs = [u \in Uris |->
                  IF u \in Watched THEN [present |-> TRUE, sessions |-> {1}] ELSE NoEntry]
    /\ tasks = << >>
    /\ tracked = {}
    /\ ready = << >>
    /\ call = NoCall
    /\ focus \in Kinds
    /\ reqctx \in BOOLEAN
    /\ InitLife("off")
    /\ resp = NoResp
    /\ oplog = << >>
    /\ replies = << >>
    /\ ws = NoStream

\* The inputs of an operation that cannot influence it are fixed to one
\* value, as in Relevant; the operation need not emit an event.
Operable(kind, op, name, v, loaderOk, ctx, fate) ==
    LET old == registry[kind][name]
        ev == IF op = "set" THEN RegistrySet(old, v).ev ELSE RegistryDel(old).ev
    IN /\ kind = focus
       /\ ctx = reqctx
       /\ Len(oplog) < MaxOps
       /\ (op = "del" => v = 1)
       /\ (~(kind = "resource" /\ ev = "changed") => loaderOk)
       /\ fate = "ok"

NextObservers ==
    \/ \E kind \in Kinds, op \in {"set", "del"}, name \in Watched, v \in Values,
          loaderOk \in BOOLEAN, ctx \in BOOLEAN, fate \in Fates :
          /\ Operable(kind, op, name, v, loaderOk, ctx, fate)
          /\ Mutate(kind, op, name, v, loaderOk, ctx, fate)
    \/ \E i \in 1..TaskCap : TaskStart(i)
    \/ \E i \in 1..TaskCap, fate \in Fates : TaskResume(i, fate)
    \/ \E i \in 1..TaskCap : DoneCallback(i)

SpecObservers == InitObservers /\ [][NextObservers]_vars

---------------------------------------------------------------------------
\* Properties.

\* C1: once shutdown() has returned, the tracked-task set is empty and every
\* task that was tracked and unfinished when shutdown() was invoked is in a
\* terminal state (completed or cancelled).
C1_ShutdownCancelsTracked ==
    [][(sdRes = "none" /\ sdRes' = "returned") =>
          /\ tracked' = {}
          /\ \A i \in atcall' : tasks'[i].st \in Terminal]_vars

\* C1, its case: shutdown() returned after it was invoked with two tasks in
\* flight, and both ended cancelled.
C1_Witness ==
    /\ sdRes = "returned"
    /\ tracked = {}
    /\ Cardinality(atcall) >= 2
    /\ \A i \in atcall : tasks[i].st = "cancelled"

\* C2 as stated: in every state the tracked-task set holds only tasks that
\* have not completed.
C2_TrackedOnlyUnfinished == \A i \in tracked : ~IsTerminal(i)

\* C2, amended: a task in the tracked-task set has not completed, or its
\* done-callback is still queued on the loop; and until shutdown() clears the
\* set, every task created by _create_task that has not completed is in it.
C2_TrackedUntilCallback ==
    /\ \A i \in tracked : ~IsTerminal(i) \/ i \in cbq
    /\ ({"clear_gathered", "clear_tasks"} \cap Range(steps) = {} =>
           \A i \in Ids : ~IsTerminal(i) => i \in tracked)

\* C2, its case: a task that returned and a task that was cancelled have
\* both left the set, their callbacks run.
C2_Witness ==
    /\ \E i \in Ids : tasks[i] = Gone("cancelled") /\ i \notin tracked
    /\ \E i \in Ids : tasks[i] = Gone("done") /\ i \notin tracked

\* C3: a mutation of a registry whose event an observer handles never raises
\* the failure of the notification or of its send at the call site; the
\* registry holds what the caller stored, and exactly one task was scheduled
\* for it.
C3_FailureStaysInTask ==
    (call.site \in Kinds /\ call.observed /\ call.exc # "LoaderError") =>
        /\ call.exc = "none"
        /\ call.applied
        /\ call.spawned = 1

\* C3, its case: the mutation returned to its caller, and a notification it
\* led to has failed: the send raised out of its task, or the notify
\* coroutine logged it as an error.
C3_Witness ==
    /\ call.site \in Kinds
    /\ call.exc = "none"
    /\ call.spawned = 1
    /\ \E i \in Ids : tasks[i].st = "failed" \/ tasks[i].log = "error"

\* C4: outside a request context (no session attached) no notify_* task
\* raises, invokes a send or creates a further task, notify_progress returns
\* without raising and schedules nothing, and once the loop has run the
\* scheduled work the tracked-task set is empty again.
C4_NoSessionNoSend ==
    ~reqctx =>
        /\ \A i \in Ids :
              /\ ~tasks[i].sent
              /\ tasks[i].st \notin {"failed", "waiting"}
              /\ tasks[i].parent = 0
        /\ (call.site = "progress" => call.exc = "none" /\ call.spawned = 0)
        /\ (ready = << >> => tracked = {})

\* C4, its case: notifications were requested with no session, their tasks
\* have run and have left the set.
C4_Witness ==
    /\ ~reqctx
    /\ call.site # "none"
    /\ Len(tasks) = MaxTasks
    /\ \A i \in Ids : tasks[i].kind = "gone"
    /\ tracked = {}

\* C5 as stated: notify_resource_change(uri) invokes the send only when at
\* least one session is subscribed to uri.
C5_SendOnlyWhenSubscribed ==
    [][\A i \in Ids :
          (tasks[i].kind = "res_change" /\ ~tasks[i].sent /\ tasks'[i].sent) =>
              subs[tasks[i].uri].sessions # {}]_vars

\* C6 as stated: every bulk update is answered with a report that has one
\* result per resource entry and per tool entry of the request, whose
\* summary counts the results by status, in a structurally successful
\* response.
C6_ReportPerItem ==
    resp.status # 0 =>
        /\ resp.status = 200
        /\ Len(resp.results) = Len(resp.req.resources) + Len(resp.req.tools)
        /\ resp.summary.success =
              Cardinality({k \in 1..Len(resp.results) : resp.results[k].status = "success"})
        /\ resp.summary.error =
              Cardinality({k \in 1..Len(resp.results) : resp.results[k].status = "error"})
        /\ resp.summary.success + resp.summary.error = Len(resp.results)

\* C7 as stated: a bulk update of two valid resource entries and one that
\* fails validation is answered with success 2, error 1 and three results.
C7_MixedBatch ==
    (/\ resp.status # 0
     /\ resp.req.tools = << >>
     /\ resp.req.replace_existing
     /\ Len(resp.req.resources) = 3
     /\ Cardinality({k \in 1..3 : resp.req.resources[k].q = "ok"}) = 2
     /\ Cardinality({k \in 1..3 : resp.req.resources[k].q = "invalid"}) = 1) =>
        /\ resp.summary.success = 2
        /\ resp.summary.error = 1
        /\ Len(resp.results) = 3

\* C8 as stated: when a step of shutdown() raises, the later steps have still
\* run: the transport is stopped, the tasks tracked at the call are cancelled
\* or finished, the three observers are removed, the runtime is shut down.
C8_BestEffortComplete ==
    sdRes = "raised" =>
        /\ {"transport_stop", "detach_resource", "detach_prompt", "detach_tool",
            "runtime_shutdown"} \subseteq Range(steps)
        /\ \A i \in atcall : tasks[i].st \in Terminal \/ tasks[i].cancelReq
        /\ \A kind \in Kinds : ~attached[kind]

\* C9 as stated: whenever start() has returned or raised, shutdown() has run.
C9_StartEndsShutDown ==
    startRes # "none" => sdRes \in {"returned", "raised"}

\* The steps of start()'s finally clause and of shutdown(), in the order of
\* the code.
ShutdownOrder ==
    << "unit_cancel", "unit_await", "gateway_stop", "transport_stop", "cancel_tasks",
       "await_tasks", "clear_gathered", "detach_resource", "detach_prompt", "detach_tool",
       "runtime_shutdown", "clear_tasks" >>

Rank(s) == CHOOSE k \in 1..Len(ShutdownOrder) : ShutdownOrder[k] = s

\* C10: the steps run in this order: the injection task is cancelled and
\* awaited, the gateway listener is stopped, the transport is stopped, the
\* tracked tasks are cancelled and awaited, the three observers are removed,
\* the runtime is shut down; the task set is cleared last.  A shutdown() that
\* returned has run every step that applies to the server.
C10_StepsInOrder ==
    /\ \A a, b \in 1..Len(steps) : a < b => Rank(steps[a]) < Rank(steps[b])
    /\ (sdRes \in {"returned", "raised"} => steps[Len(steps)] = "clear_tasks")
    /\ (sdRes = "returned" =>
           /\ {"transport_stop", "detach_resource", "detach_prompt", "detach_tool",
               "runtime_shutdown"} \subseteq Range(steps)
           /\ (inj # "off" => "gateway_stop" \in Range(steps))
           /\ (inj # "off" /\ via = "start" =>
                  {"unit_cancel", "unit_await"} \subseteq Range(steps))
           /\ ("cancel_tasks" \in Range(steps) <=> "await_tasks" \in Range(steps))
           /\ (snap # {} <=> "cancel_tasks" \in Range(steps)))

\* C10, its case: a start() with an injection task and tracked tasks ended
\* with every step of the sequence run.
C10_Witness == sdRes = "returned" /\ steps = ShutdownOrder

\* The events of the log, and the number of coroutines of one kind that the
\* observers handed to _create_task.
EventsLogged == [k \in 1..Len(oplog) |-> oplog[k].ev]

Requested(kind) ==
    Cardinality({p \in (1..Len(oplog)) \X (1..1) :
                    /\ p[2] <= Len(oplog[p[1]].coros)
                    /\ oplog[p[1]].coros[p[2]].kind = kind})

\* C11 as stated: every operation that changed the registry was handled by
\* the attached observer as one event, and the observer scheduled exactly
\* one task for it (so N operations give N events and N tasks, in order).
C11_OneTaskPerOperation ==
    \A k \in 1..Len(oplog) :
        oplog[k].ev \in Events => oplog[k].handled /\ Len(oplog[k].coros) = 1

C13_ListOnlyMapping ==
    \A k \in 1..Len(oplog) :
        /\ ((oplog[k].kind = "tool" /\ oplog[k].handled) =>
               oplog[k].exc = "none" /\ oplog[k].coros = << Coro("tool_list", 0) >>)
        /\ ((oplog[k].kind = "prompt" /\ oplog[k].handled) =>
               oplog[k].exc = "none" /\ oplog[k].coros = << Coro("prompt_list", 0) >>)

\* C13, its case: the prompt registry emitted an event of each of the three
\* kinds, and each led to one prompt list request.
C13_Witness ==
    /\ focus = "prompt"
    /\ {oplog[k].ev : k \in 1..Len(oplog)} = Events
    /\ Requested("prompt_list") = 3

\* C14 as stated: no exception raised while an observer handles an event
\* reaches the call site of the registry mutation, the failure of the
\* resource-loader lookup on a Changed event included.
C14_HandlerNeverRaises ==
    (call.site \in Kinds /\ call.observed) => call.exc = "none"

\* C15 as stated: a notify_* coroutine hands its send to _create_task and
\* returns; it is never suspended until the delivery of its send completes.
C15_NeverAwaitsInline ==
    \A i \in Ids :
        tasks[i].kind \in {"res_list", "res_change", "prompt_list", "tool_list"} =>
            tasks[i].st # "waiting"

\* C16: a removal is answered 200 when the name is registered and 404 when
\* it is not, never with an unhandled fault; the removal of a missing name
\* leaves its registry as it was; a removal that follows a successful
\* removal of the same name is answered 404.
C16_RemoveTwice ==
    /\ \A k \in 1..Len(replies) :
          replies[k].op = "remove" =>
              /\ replies[k].status = IF replies[k].before = Absent THEN 404 ELSE 200
              /\ (replies[k].status = 404 => replies[k].after = replies[k].before)
    /\ \A k \in 1..(Len(replies) - 1) :
          (/\ replies[k].op = "remove" /\ replies[k].status = 200
           /\ replies[k + 1].op = "remove"
           /\ replies[k + 1].kind = replies[k].kind
           /\ replies[k + 1].name = replies[k].name) =>
              replies[k + 1].status = 404

\* C16, its case: a registered resource was removed twice in a row; the
\* first removal succeeded and the second was answered 404.
C16_Witness ==
    /\ Len(replies) >= 2
    /\ replies[1].op = "remove" /\ replies[1].kind = "resource" /\ replies[1].status = 200
    /\ replies[2].op = "remove" /\ replies[2].kind = "resource" /\ replies[2].status = 404
    /\ replies[2].name = replies[1].name
    /\ registry["resource"][replies[1].name] = Absent

\* C17: after a successful POST /resources/{name} the registry holds the
\* payload under name and a GET /resources that follows lists name with it;
\* a valid payload replaces an existing entry; after a successful DELETE a
\* GET /resources that follows does not list name.
C17_AddListRoundTrip ==
    /\ \A k \in 1..Len(replies) :
          (replies[k].op = "add" /\ replies[k].kind = "resource") =>
              /\ (replies[k].status = 200 => replies[k].after = replies[k].val)
              /\ (replies[k].q = "ok" => replies[k].after = replies[k].val)
    /\ \A k \in 1..(Len(replies) - 1) :
          (replies[k].kind = "resource" /\ replies[k].status = 200
              /\ replies[k + 1].op = "list") =>
              /\ (replies[k].op = "add" =>
                     <<replies[k].name, replies[k].val>> \in replies[k + 1].listing)
              /\ (replies[k].op = "remove" =>
                     \A e \in replies[k + 1].listing : e[1] # replies[k].name)

\* C17, its case: a resource was stored over an existing entry with another
\* content, listed with the new content, then removed.
C17_Witness ==
    /\ Len(replies) = 3
    /\ replies[1].op = "add" /\ replies[1].kind = "resource" /\ replies[1].status = 200
    /\ replies[1].before \notin {Absent, replies[1].val}
    /\ replies[2].op = "list"
    /\ <<replies[1].name, replies[1].val>> \in replies[2].listing
    /\ replies[3].op = "remove" /\ replies[3].status = 200

\* The entries of a payload in the order they are processed.
Entries(req) ==
    [k \in 1..Len(req.resources) |->
        [kind |-> "resource", name |-> req.resources[k].name, q |-> req.resources[k].q]]
    \o [k \in 1..Len(req.tools) |->
           [kind |-> "tool", name |-> req.tools[k].name, q |-> req.tools[k].q]]

Injected == replies # << >> /\ replies[1].op = "inject"

\* C18: an inject-config call whose payload holds an entry that fails is
\* answered 400, and no entry after the first failing one is applied: its
\* name is as before the call and no registration was attempted for it.
C18_InjectFailsWhole ==
    Injected =>
        LET E == Entries(replies[1].req)
            bad == {k \in 1..Len(E) : E[k].q # "ok"}
        IN bad # {} =>
              /\ replies[1].status = 400
              /\ \A j \in 1..Len(E) :
                    (\E k \in bad : k < j) =>
                        /\ registry[E[j].kind][E[j].name]
                              = replies[1].before[E[j].kind][E[j].name]
                        /\ \A l \in 1..Len(oplog) :
                              ~(oplog[l].kind = E[j].kind /\ oplog[l].name = E[j].name)

\* C18, its case: the second of three entries is invalid, the call was
\* answered 400, and the valid entry after it, which would have been new,
\* is not registered.
C18_Witness ==
    /\ Injected
    /\ replies[1].status = 400
    /\ LET E == Entries(replies[1].req)
       IN /\ Len(E) = 3
          /\ E[1].q = "ok" /\ E[2].q = "invalid" /\ E[3].q = "ok"
          /\ replies[1].before[E[3].kind][E[3].name] = Absent
          /\ registry[E[3].kind][E[3].name] = Absent

\* C19 as stated: a failed inject-config call leaves the registries as they
\* were, and has produced no change event and no notification task.
C19_InjectAllOrNothing ==
    (Injected /\ replies[1].status = 400) =>
        /\ registry = replies[1].before
        /\ \A l \in 1..Len(oplog) : oplog[l].ev \notin Events
        /\ tasks = << >>

\* C20: a bulk update registers the resource entries in the order of the
\* payload, then the tool entries in the order of the payload; the results
\* of the report and the registrations (with the events they emit) are in
\* that order.
C20_BulkOrder ==
    resp.status = 200 =>
        LET E == Entries(resp.req)
        IN /\ Len(resp.results) = Len(E)
           /\ Len(oplog) = Len(E)
           /\ \A k \in 1..Len(E) :
                 /\ resp.results[k].component_type = E[k].kind
                 /\ resp.results[k].name = E[k].name
                 /\ oplog[k].kind = E[k].kind
                 /\ oplog[k].name = E[k].name

\* C20, its case: a bulk update of three resources and a tool, of which the
\* last resource and the tool emitted an event.
C20_Witness ==
    /\ resp.status = 200
    /\ Len(resp.req.resources) = 3
    /\ Len(resp.req.tools) = 1
    /\ Len(oplog) = 4
    /\ oplog[3].ev \in Events /\ oplog[3].kind = "resource"
    /\ oplog[4].ev \in Events /\ oplog[4].kind = "tool"

---------------------------------------------------------------------------
\* The gateway's websocket endpoint, one connection: accept, then a loop
\* that receives one JSON message, handles it inside a try whose except
\* Exception clause sends an error envelope, and receives the next; the
\* loop is wrapped in a try that catches WebSocketDisconnect only.
MaxMsgs == 2       \* messages received on one connection

\* The local variable `message` before its first assignment.
Unbound == 0

NoEnvelope == [type |-> "none"]

\* The update payloads a client sends: one resource entry and one tool entry
\* at most, on the watched name, replacing the registered value.
StreamUpdates ==
    [resources : Batches(Watched, 1),
     tools : {<< >>, << [name |-> 1, q |-> "ok"] >>},
     replace_existing : {TRUE}, val : {MaxVal}]

\* What a client sends: text that is not JSON, JSON that does not validate
\* against WebSocketMessage, or a message of one of the three types.  The
\* request id of the k-th message is k.
Frames ==
    {[kind |-> "update", req |-> r] : r \in StreamUpdates} \cup
    {[kind |-> k, req |-> << >>] : k \in {"query", "error", "invalid", "notjson"}}

\* list_components(): the names of the three registries.
list_components(reg) == [k \in Kinds |-> {n \in Names : reg[k][n] # Absent}]

\* WebSocketResponse(type=..., data=..., request_id=...).model_dump(); re is
\* the message whose handling built it.
WebSocketResponse(type, data, request_id, re) ==
    [type |-> type, data |-> data, request_id |-> request_id, re |-> re]

\* What send_json raises when the peer has gone: the server's send fails
\* and the framework raises WebSocketDisconnect, or (once the connection is
\* marked closed) RuntimeError; a frame may also be written before the loss
\* is noticed.
SendErrors == {"WebSocketDisconnect", "RuntimeError"}

\* Faulty variant: an except clause that does not reply.
except_silent(w) == [w EXCEPT !.pc = "receiving", !.staged = NoEnvelope]

\* The except Exception clause of the loop body: the envelope is built with
\* getattr(message, "request_id", None), which reads the local variable
\* `message`: unbound until a message has validated (UnboundLocalError,
\* raised from the except clause), otherwise the latest message that
\* validated.  Then the envelope is sent.
except_clause(w) ==
    IF w.message = Unbound
    THEN [w EXCEPT !.pc = "raised", !.staged = NoEnvelope]
    ELSE [w EXCEPT !.pc = "sending_error",
                   !.staged = WebSocketResponse("error", << >>, w.message, w.n)]

\* await websocket.accept().
WsAccept ==
    /\ ws = NoStream
    /\ ws' = [pc |-> "receiving", peer |-> "connected", n |-> 0, seen |-> << >>,
              message |-> Unbound, staged |-> NoEnvelope, out |-> << >>]
    /\ UNCHANGED <<dvars, lvars, resp, oplog, replies>>

\* receive_json() returns the k-th message, and the loop body runs up to
\* its next await.  Text that is not JSON raises in receive_json, outside
\* the inner try.  An update is validated against ConfigUpdateRequest,
\* applied by bulk_update, and answered with response.results; a query is
\* answered with list_components(); an error message is logged.
WsReceive(f, loaderOk) ==
    /\ ws # NoStream
    /\ ws.pc = "receiving"
    /\ ws.peer = "connected"
    /\ ws.n < MaxMsgs
    /\ LET id == ws.n + 1
           got == [ws EXCEPT !.n = id, !.seen = Append(@, f.kind)]
           bound == [got EXCEPT !.message = id]
       IN CASE f.kind = "notjson" ->
                 /\ ws' = [got EXCEPT !.pc = "raised"]
                 /\ UNCHANGED <<registry, tasks, tracked, ready, oplog>>
            [] f.kind = "invalid" ->
                 /\ ws' = except_clause(got)
                 /\ UNCHANGED <<registry, tasks, tracked, ready, oplog>>
            [] f.kind = "error" ->
                 /\ ws' = bound
                 /\ UNCHANGED <<registry, tasks, tracked, ready, oplog>>
            [] f.kind = "query" ->
                 /\ ws' = [bound EXCEPT
                              !.pc = "sending",
                              !.staged = WebSocketResponse(
                                             "success",
                                             [components |-> list_components(registry)],
                                             id, id)]
                 /\ UNCHANGED <<registry, tasks, tracked, ready, oplog>>
            [] f.kind = "update" /\ ~model_validate(f.req) ->
                 /\ ws' = except_clause(bound)
                 /\ UNCHANGED <<registry, tasks, tracked, ready, oplog>>
            [] f.kind = "update" /\ model_validate(f.req) ->
                 LET a == bulk_update(
                              [registry |-> registry, tasks |-> tasks, tracked |-> tracked,
                               ready |-> ready, attached |-> attached, oplog |-> oplog,
                               results |-> << >>, success |-> 0, error |-> 0],
                              f.req, loaderOk, reqctx)
                 IN /\ registry' = a.registry
                    /\ tasks' = a.tasks
                    /\ tracked' = a.tracked
                    /\ ready' = a.ready
                    /\ oplog' = a.oplog
                    /\ ws' = [bound EXCEPT
                                 !.pc = "sending",
                                 !.staged = WebSocketResponse(
                                                "success", [results |-> a.results], id, id)]
    /\ UNCHANGED <<attached, subs, call, focus, reqctx, lvars, resp, replies>>

\* The peer goes away while the handler waits in receive_json or in
\* send_json.
WsPeerDisconnects ==
    /\ ws # NoStream
    /\ ws.pc \in {"receiving", "sending", "sending_error"}
    /\ ws.peer = "connected"
    /\ ws' = [ws EXCEPT !.peer = "gone"]
    /\ UNCHANGED <<dvars, lvars, resp, oplog, replies>>

\* receive_json() raises WebSocketDisconnect: the outer except clause logs
\* it and the handler returns.
WsReceiveDisconnect ==
    /\ ws # NoStream
    /\ ws.pc = "receiving"
    /\ ws.peer = "gone"
    /\ ws' = [ws EXCEPT !.pc = "closed"]
    /\ UNCHANGED <<dvars, lvars, resp, oplog, replies>>

\* send_json of a success envelope ends: the envelope is written, or the
\* send raises inside the inner try and the except Exception clause runs.
WsSendEnds(exc) ==
    /\ ws # NoStream
    /\ ws.pc = "sending"
    /\ (ws.peer = "connected" => exc = "none")
    /\ ws' = IF exc = "none"
             THEN [ws EXCEPT !.pc = "receiving", !.staged = NoEnvelope,
                             !.out = Append(@, ws.staged)]
             ELSE except_clause(ws)
    /\ UNCHANGED <<dvars, lvars, resp, oplog, replies>>

\* send_json of the error envelope, in the except clause, ends: an
\* exception it raises leaves the loop; the outer try catches
\* WebSocketDisconnect and nothing else.
WsErrorSendEnds(exc) ==
    /\ ws # NoStream
    /\ ws.pc = "sending_error"
    /\ (ws.peer = "connected" => exc = "none")
    /\ ws' = CASE exc = "none" ->
                    [ws EXCEPT !.pc = "receiving", !.staged = NoEnvelope,
                               !.out = Append(@, ws.staged)]
               [] exc = "WebSocketDisconnect" ->
                    [ws EXCEPT !.pc = "closed", !.staged = NoEnvelope]
               [] OTHER ->
                    [ws EXCEPT !.pc = "raised", !.staged = NoEnvelope]
    /\ UNCHANGED <<dvars, lvars, resp, oplog, replies>>

\* The loader's outcome is an input only when the update replaces the
\* watched resource with another value.
StreamLoaderAsked(f) ==
    /\ f.kind = "update"
    /\ model_validate(f.req)
    /\ LoaderAsked(f.req)

NextStream ==
    \/ WsAccept
    \/ \E f \in Frames, loaderOk \in BOOLEAN :
          /\ (~StreamLoaderAsked(f) => loaderOk)
          /\ WsReceive(f, loaderOk)
    \/ WsPeerDisconnects
    \/ WsReceiveDisconnect
    \/ \E exc \in SendErrors \cup {"none"} : WsSendEnds(exc)
    \/ \E exc \in SendErrors \cup {"none"} : WsErrorSendEnds(exc)
    \/ \E i \in 1..(MaxMsgs + MaxMsgs) : TaskStart(i)
    \/ \E i \in 1..(MaxMsgs + MaxMsgs) : DoneCallback(i)

\* One connection of the websocket endpoint to a server whose registries
\* hold the watched name.
SpecStream == InitGateway /\ [][NextStream]_vars

\* The server as a caller constructs and starts it, with every combination
\* of transport, enable_injection and raise_exceptions.  No registry is
\* mutated, so no task is created and shutdown() has nothing to gather.
InitStartup ==
    /\ registry = [k \in Kinds |-> [n \in Names |-> IF n \in Watched THEN 1 ELSE Absent]]
    /\ attached = [k \in Kinds |-> TRUE]
    /\ subs = [u \in Uris |-> NoEntry]
    /\ tasks = << >>
    /\ tracked = {}
    /\ ready = << >>
    /\ call = NoCall
    /\ focus = "resource"
    /\ reqctx = FALSE
    /\ \E transport \in {"stdio", "sse"}, enable_injection, raise_exceptions \in BOOLEAN :
          opts = LLMLingServer(transport, enable_injection, raise_exceptions)
    /\ pc = "new"
    /\ inj = opts.injection_server
    /\ via = "none"
    /\ pending = "none"
    /\ startRes = "none"
    /\ sdRes = "none"
    /\ snap = {}
    /\ steps = << >>
    /\ atcall = {}
    /\ resp = NoResp
    /\ oplog = << >>
    /\ replies = << >>
    /\ ws = NoStream

NextStartup ==
    \/ Start
    \/ \E fails \in BOOLEAN : InjStart(fails)
    \/ \E raises \in BOOLEAN : ServeEnds(raises)
    \/ UnitAwaited
    \/ ShutdownCalled
    \/ \E raises \in BOOLEAN : StopEnds(raises)
    \/ \E raises \in BOOLEAN, k \in 0..Len(DetachOrder) : TransportEnds(raises, k, << >>)
    \/ \E raises \in BOOLEAN : RuntimeEnds(raises)

SpecStartup == InitStartup /\ [][NextStartup]_vars

\* C21 as stated: after a bulk update every entry reported as success is
\* registered with the payload's content, and every entry reported as error
\* has left its registry entry as it was (it has changed nothing).
C21_FailedItemUnchanged ==
    resp.status = 200 =>
        \A k \in 1..Len(resp.results) :
            LET e == Entries(resp.req)[k]
            IN /\ (resp.results[k].status = "success" =>
                      registry[e.kind][e.name] = resp.req.val)
               /\ (resp.results[k].status = "error" => oplog[k].ev \notin Events)

\* The registrations that changed a registry and were handled by its
\* observer with one notification scheduled.
Notified == {l \in 1..Len(oplog) : oplog[l].ev \in Events /\ Len(oplog[l].coros) = 1}

\* C22: every notification task of a gateway request was scheduled for an
\* entry that was registered (an entry that was rejected or not reached
\* schedules none); a request rejected by validation as a whole schedules
\* none; and no task of a gateway request invokes a send.
C22_NoSendForRejected ==
    /\ Len(tasks) = Cardinality(Notified)
    /\ \A l \in 1..Len(oplog) : oplog[l].ev \notin Events => oplog[l].coros = << >>
    /\ (resp.status = 422 => tasks = << >> /\ oplog = << >>)
    /\ \A i \in Ids : ~tasks[i].sent /\ tasks[i].st # "waiting"

\* C22, its case: an inject-config call was answered 400 after its first
\* entry was registered; the notification scheduled for that entry has run
\* and has sent nothing.
C22_Witness ==
    /\ Injected
    /\ replies[1].status = 400
    /\ Len(tasks) = 1
    /\ tasks[1] = Gone("done")
    /\ Entries(replies[1].req)[2].q = "invalid"

\* C23 as stated: while the peer is connected, no received message makes
\* the connection handler raise: a message whose handling fails is answered
\* with an error envelope and the loop goes on receiving.
C23_ErrorEnvelopeThenContinue ==
    (ws # NoStream /\ ws.peer = "connected") => ws.pc # "raised"

\* C24 as stated: the success envelope that answers an update message
\* carries the request id of that message, the per-item results and the
\* summary of the successes and errors among them.
C24_UpdateCarriesReport ==
    ws # NoStream =>
        \A j \in 1..Len(ws.out) :
            LET env == ws.out[j]
            IN (ws.seen[env.re] = "update" /\ env.type = "success") =>
                  /\ env.request_id = env.re
                  /\ "results" \in DOMAIN env.data
                  /\ "summary" \in DOMAIN env.data

\* The envelopes sent for the k-th message, the staged one included.
RepliesTo(k) ==
    {j \in 1..Len(ws.out) : ws.out[j].re = k}

\* C25: while the peer is connected, every update and every query message
\* has exactly one reply envelope by the time the next message is read, an
\* error-type message has none, the envelopes follow the order of the
\* messages, no envelope is sent for a message before the earlier messages
\* are answered, and the reply to a query lists the names registered when
\* the query is handled.
C25_OneReplyPerRequest ==
    (ws # NoStream /\ ws.peer = "connected" /\ ws.pc # "raised") =>
        /\ \A k \in 1..ws.n :
              /\ (ws.seen[k] \in {"update", "query"} /\ (k < ws.n \/ ws.pc = "receiving"))
                    => Cardinality(RepliesTo(k)) = 1
              /\ (ws.seen[k] \in {"update", "query"} /\ k = ws.n /\ ws.pc # "receiving")
                    => RepliesTo(k) = {} /\ ws.staged.re = k
              /\ ws.seen[k] = "error" => RepliesTo(k) = {}
        /\ \A i, j \in 1..Len(ws.out) : i < j => ws.out[i].re < ws.out[j].re
        /\ (ws.pc = "sending" /\ ws.seen[ws.n] = "query") =>
              /\ ws.staged.type = "success"
              /\ ws.staged.request_id = ws.n
              /\ \A kind \in Kinds, name \in Names :
                    name \in ws.staged.data.components[kind]
                        <=> registry[kind][name] # Absent

\* C25, its case: an update, then a query, both answered, the second after
\* the update removed nothing and the peer still connected.
C25_Witness ==
    /\ ws # NoStream
    /\ ws.peer = "connected"
    /\ ws.pc = "receiving"
    /\ ws.seen = << "update", "query" >>
    /\ Len(ws.out) = 2
    /\ ws.out[1].re = 1
    /\ ws.out[2].re = 2
    /\ ws.out[2].data.components["resource"] = Watched

\* C26 as stated: once the peer has disconnected, the connection handler
\* does not end by raising.
C26_DisconnectIsClean ==
    (ws # NoStream /\ ws.peer = "gone") => ws.pc # "raised"

\* C27 as stated: a server that has an injection server uses the stdio
\* transport, and a server constructed with enable_injection under the sse
\* transport does not get to serve without a configuration error having
\* been reported.
C27_GatewayOnlyWithStdio ==
    /\ (inj # "off" => opts.transport = "stdio")
    /\ ((opts.enable_injection /\ opts.transport = "sse" /\ pc # "new")
           => opts.config_error)

\* C28 as stated: when the injection server's start has failed and nothing
\* else has, start() ends by raising exactly when it was called with
\* raise_exceptions=True.
C28_FatalityConfigurable ==
    (pc = "end" /\ via = "start" /\ inj = "failed" /\ pending = "none") =>
        (startRes = "raised" <=> opts.raise_exceptions)

\* C29 as stated: a notify_* task logs "no active session" at debug level
\* only when its context holds no session (and then it has invoked no
\* send), and it logs an error only when its context holds a session.
C29_MissingSessionDistinguished ==
    \A i \in Ids :
        tasks[i].kind # "gone" =>
            /\ (tasks[i].log = "debug" => ~tasks[i].ctx /\ ~tasks[i].sent)
            /\ (tasks[i].log = "error" => tasks[i].ctx)

\* C30 as stated: a task that has invoked the session's send with a
\* session attached, and whose send has failed, has logged that failure at
\* error level and has ended without raising.
C30_DeliveryErrorLogged ==
    \A i \in Ids :
        (/\ tasks[i].kind # "gone"
         /\ tasks[i].ctx
         /\ tasks[i].sent
         /\ (tasks[i].st = "failed" \/ tasks[i].log # "none"))
            => (tasks[i].log = "error" /\ tasks[i].st = "done")

\* The coroutines that hand the session's send to _create_task instead of
\* awaiting it.
Schedulers == {"tool_list", "prompt_list"}

\* C31: the first step of a notification task makes at most one send
\* attempt or schedules at most one send: a resource-list task invokes the
\* send exactly when a session is attached, a resource-changed task exactly
\* when a session is attached and the uri is in the table, a tool-list or
\* prompt-list task invokes none itself and schedules exactly one sending
\* task when a session is attached, which invokes the send once; a send that
\* has ended, failed or not, ends its task and creates no further task; a
\* finished task never runs again; one operation on a registry schedules at
\* most one task.
C31_OneAttemptNoRetry ==
    [][/\ \A i \in Ids :
             (tasks[i].st = "pending" /\ tasks'[i].st # "pending") =>
                 LET t == tasks[i]
                     grown == Len(tasks') - Len(tasks)
                 IN CASE t.kind = "res_list" ->
                           (tasks'[i].sent <=> t.ctx) /\ grown = 0
                      [] t.kind = "res_change" ->
                           (tasks'[i].sent <=> (t.ctx /\ subs[t.uri].present)) /\ grown = 0
                      [] t.kind \in Schedulers ->
                           /\ ~tasks'[i].sent
                           /\ grown = (IF t.ctx THEN 1 ELSE 0)
                           /\ (t.ctx => tasks'[Len(tasks')].parent = i)
                      [] OTHER -> tasks'[i].sent /\ grown = 0
       /\ \A i \in Ids :
             (tasks[i].st = "waiting" /\ tasks'[i].st # "waiting") =>
                 tasks'[i].st \in Terminal /\ Len(tasks') = Len(tasks)
       /\ \A i \in Ids :
             (IsTerminal(i) \/ tasks[i].kind = "gone") => tasks'[i].st = tasks[i].st
       /\ (oplog' # oplog => Len(tasks') <= Len(tasks) + 1)]_vars

\* C31, its case: one tool was registered with a session attached; its
\* notification scheduled one send, the send failed, and both tasks are
\* finished with nothing left to run.
C31_Witness ==
    /\ focus = "tool"
    /\ reqctx
    /\ Len(oplog) = 1
    /\ Len(tasks) = 2
    /\ tasks[1] = Gone("done")
    /\ tasks[2] = Gone("failed")
    /\ ready = << >>
    /\ tracked = {}

---------------------------------------------------------------------------
\* A further shutdown() on a server whose shutdown() has ended: the finally
\* clause of from_config_file calls shutdown() whatever was called on the
\* server inside the context.  The call runs the same statements again.
ShutdownAgain ==
    /\ pc = "end"
    /\ sdRes \in {"returned", "raised"}
    /\ via = "aexit"
    /\ via' = "again"
    /\ pc' = shutdown_entry(inj)
    /\ sdRes' = "none"
    /\ steps' = << >>
    /\ snap' = {}
    /\ atcall' = Cancellable(tasks, tracked)
    /\ UNCHANGED <<registry, attached, subs, tasks, tracked, ready, call, focus, reqctx>>
    /\ UNCHANGED <<inj, pending, startRes, opts, gvars>>

\* A server that is shut down twice, with mutations of one registry and the
\* loop's handles interleaved at every await.
InitRestart ==
    /\ registry = [k \in Kinds |-> [n \in Names |-> 1]]
    /\ attached = [k \in Kinds |-> TRUE]
    /\ subs = [u \in Uris |->
                  IF u \in Watched THEN [present |-> TRUE, sessions |-> {1}] ELSE NoEntry]
    /\ tasks = << >>
    /\ tracked = {}
    /\ ready = << >>
    /\ call = NoCall
    /\ focus = "resource"
    /\ reqctx \in BOOLEAN
    /\ \E unit \in {"off", "unborn"} : InitLife(unit)
    /\ resp = NoResp
    /\ oplog = << >>
    /\ replies = << >>
    /\ ws = NoStream

NextRestart ==
    \/ \E kind \in Kinds, op \in {"set", "del"}, name \in Watched, v \in Values,
          loaderOk \in BOOLEAN, ctx \in BOOLEAN, fate \in Fates :
          /\ Relevant(kind, op, name, v, loaderOk, ctx, fate)
          /\ Mutate(kind, op, name, v, loaderOk, ctx, fate)
    \/ \E i \in 1..MaxTasks : TaskStart(i)
    \/ \E i \in 1..MaxTasks, fate \in Fates : TaskResume(i, fate)
    \/ \E i \in 1..MaxTasks : TaskWake(i)
    \/ \E i \in 1..MaxTasks : DoneCallback(i)
    \/ ShutdownCalled
    \/ ShutdownAgain
    \/ \E raises \in BOOLEAN : StopEnds(raises)
    \/ \E raises \in BOOLEAN, k \in 0..Len(DetachOrder),
          ord \in UNION {Perms(S) : S \in SUBSET (1..MaxTasks)} :
          TransportEnds(raises, k, ord)
    \/ \E k \in 0..Len(DetachOrder) : GatherEnds(k)
    \/ \E raises \in BOOLEAN : RuntimeEnds(raises)

SpecRestart == InitRestart /\ [][NextRestart]_vars

\* C32 as stated: when shutdown() returns or raises the tracked-task set is
\* empty, and a further shutdown() on the server finds the set empty, cancels
\* nothing and leaves it empty.
C32_ShutdownIdempotent ==
    [][/\ ((sdRes = "none" /\ sdRes' \in {"returned", "raised"}) => tracked' = {})
       /\ (via' = "again" => tracked' = {} /\ "cancel_tasks" \notin Range(steps'))]_vars

\* C35 as stated: once shutdown() has returned, an operation on a registry
\* is handled by no observer, schedules no task and leaves the tracked-task
\* set empty.
C35_NoHandlerAfterShutdown ==
    [][(sdRes = "returned" /\ oplog' # oplog) =>
          /\ ~call'.observed
          /\ tasks' = tasks
          /\ tracked' = {}]_vars

\* C36 as stated: when shutdown() has awaited the cancelled tasks and goes
\* on to clear the set, every task created through _create_task until then,
\* the ones scheduled while shutdown() was suspended included, has finished
\* or was cancelled; none is still pending.
C36_NoTaskSurvivesShutdown ==
    [][(pc = "in_gather" /\ pc' # "in_gather") =>
          \A i \in DOMAIN tasks : tasks[i].st \in Terminal]_vars

\* C33: a call of notify_progress never raises to its caller; with a
\* session attached it creates one tracked task that sends the progress
\* notification and, when a description is given, a second tracked task
\* after it that sends the log message; with no session it creates none.
C33_ProgressSchedules ==
    [][(focus = "progress" /\ call'.site = "progress"
          /\ (call' # call \/ Len(tasks') > Len(tasks))) =>
          LET n == Len(tasks') - Len(tasks)
              new == [k \in 1..n |-> tasks'[Len(tasks) + k].kind]
          IN /\ call'.exc = "none"
             /\ new = (IF ~call'.ctx THEN << >>
                       ELSE IF call'.description THEN << "send_progress", "send_log" >>
                       ELSE << "send_progress" >>)
             /\ \A k \in 1..n : (Len(tasks) + k) \in tracked'
             /\ \A k \in 1..n : tasks'[Len(tasks) + k].st = "pending"]_vars

\* C33, its case: notify_progress was called with a description and a
\* session attached, and its two sends are scheduled and tracked.
C33_Witness ==
    /\ call.site = "progress"
    /\ call.ctx
    /\ call.description
    /\ Len(tasks) = 2
    /\ tasks[1].kind = "send_progress"
    /\ tasks[2].kind = "send_log"
    /\ tracked = {1, 2}

---------------------------------------------------------------------------
\* inject_config with the resource entries as the client writes them: a
\* name, the value of the "type" key ("missing" when the entry has none) and
\* whether the entry validates against the model of its type.
MaxEntries == 2    \* resource entries of one inject-config payload

PayloadTags ==
    {"path", "text", "cli", "command", "source", "callable", "image", "bogus", "missing"}

Payloads ==
    UNION {{b \in [1..l -> [name : Names, type : PayloadTags, wellformed : BOOLEAN]] :
               \A i, j \in 1..l : i # j => b[i].name # b[j].name} : l \in 0..MaxEntries}

\* Faulty variant: the tag of a CLIResource is "command".
match_resource_type_command(tag) ==
    CASE tag = "path" -> "PathResource"
      [] tag = "text" -> "TextResource"
      [] tag = "command" -> "CLIResource"
      [] tag = "source" -> "SourceResource"
      [] tag = "callable" -> "CallableResource"
      [] tag = "image" -> "ImageResource"
      [] OTHER -> "ValueError"

\* match resource_type: the model an entry is validated against, or the
\* ValueError of the default case.
match_resource_type(tag) ==
    CASE tag = "path" -> "PathResource"
      [] tag = "text" -> "TextResource"
      [] tag = "cli" -> "CLIResource"
      [] tag = "source" -> "SourceResource"
      [] tag = "callable" -> "CallableResource"
      [] tag = "image" -> "ImageResource"
      [] OTHER -> "ValueError"

\* The entry as the loop sees it: the match or <Model>.model_validate raises
\* (invalid), or the validated resource is handed to register_resource.
Validated(entry) ==
    [name |-> entry.name,
     q |-> IF match_resource_type(entry.type) = "ValueError" \/ ~entry.wellformed
           THEN "invalid" ELSE "ok"]

\* The models whose model_validate the loop called, entry by entry, up to
\* the entry that left the loop.
RECURSIVE Dispatched(_, _)
Dispatched(payload, done) ==
    IF payload = << >> \/ done = 0 THEN << >>
    ELSE << match_resource_type(Head(payload).type) >> \o Dispatched(Tail(payload), done - 1)

\* One POST /inject-config with resource entries only.
InjectRaw(payload, val, loaderOk) ==
    /\ replies = << >>
    /\ LET req == [resources |-> [k \in 1..Len(payload) |-> Validated(payload[k])],
                   tools |-> << >>, replace_existing |-> TRUE, val |-> val]
           a == inject_config(
                    [registry |-> registry, tasks |-> tasks, tracked |-> tracked,
                     ready |-> ready, attached |-> attached, oplog |-> oplog,
                     raised |-> FALSE],
                    req, loaderOk, reqctx)
           reached == IF a.raised /\ Len(a.oplog) < Len(payload)
                         /\ req.resources[Len(a.oplog) + 1].q = "invalid"
                      THEN Len(a.oplog) + 1 ELSE Len(a.oplog)
       IN /\ registry' = a.registry
          /\ tasks' = a.tasks
          /\ tracked' = a.tracked
          /\ ready' = a.ready
          /\ oplog' = a.oplog
          /\ replies' = << [op |-> "inject", req |-> req, before |-> registry,
                            status |-> IF a.raised THEN 400 ELSE 200,
                            payload |-> payload,
                            dispatched |-> Dispatched(payload, reached)] >>
    /\ UNCHANGED <<attached, subs, call, focus, reqctx, lvars, resp, ws>>

NextInject ==
    \/ \E payload \in Payloads, val \in Values, loaderOk \in BOOLEAN :
          /\ (~(\E k \in 1..Len(payload) :
                   registry["resource"][payload[k].name] \notin {Absent, val}) => loaderOk)
          /\ InjectRaw(payload, val, loaderOk)
    \/ \E i \in 1..MaxEntries : TaskStart(i)
    \/ \E i \in 1..MaxEntries : DoneCallback(i)

SpecInject == InitGateway /\ [][NextInject]_vars

\* The entries of the payload that the loop has reached with no exception
\* before them: every earlier entry was registered and handled.
Reached(k) ==
    /\ k <= Len(oplog) + 1
    /\ \A j \in 1..(k - 1) : oplog[j].ev # "rejected" /\ oplog[j].exc = "none"

\* C34 as stated: an entry the loop reaches whose tag is one of path, text,
\* command, source, callable, image and which validates is registered; an
\* entry with any other tag, or none, makes the call fail with 400 and is
\* not registered.
C34_SixTagsTotal ==
    Injected =>
        LET P == replies[1].payload
            tags == {"path", "text", "command", "source", "callable", "image"}
        IN \A k \in 1..Len(P) :
              /\ (P[k].type \in tags /\ P[k].wellformed /\ Reached(k)) =>
                    /\ registry["resource"][P[k].name] = replies[1].req.val
                    /\ replies[1].dispatched[k] # "ValueError"
              /\ (P[k].type \notin tags /\ Reached(k)) =>
                    /\ replies[1].status = 400
                    /\ registry["resource"][P[k].name] = replies[1].before["resource"][P[k].name]

\* C34, amended: the same with the six tags path, text, cli, source,
\* callable, image, each entry being validated against the model of its own
\* tag.
C34_SixTagsOfTheCode ==
    Injected =>
        LET P == replies[1].payload
            model == [t \in {"path", "text", "cli", "source", "callable", "image"} |->
                         CASE t = "path" -> "PathResource"
                           [] t = "text" -> "TextResource"
                           [] t = "cli" -> "CLIResource"
                           [] t = "source" -> "SourceResource"
                           [] t = "callable" -> "CallableResource"
                           [] t = "image" -> "ImageResource"]
        IN \A k \in 1..Len(P) :
              /\ (P[k].type \in DOMAIN model /\ Reached(k)) =>
                    replies[1].dispatched[k] = model[P[k].type]
              /\ (P[k].type \in DOMAIN model /\ P[k].wellformed /\ Reached(k)) =>
                    registry["resource"][P[k].name] = replies[1].req.val
              /\ (P[k].type \notin DOMAIN model /\ Reached(k)) =>
                    /\ replies[1].status = 400
                    /\ replies[1].dispatched[k] = "ValueError"
                    /\ Len(oplog) = k - 1
                    /\ registry["resource"][P[k].name] = replies[1].before["resource"][P[k].name]

\* C34, its case: a cli entry and an image entry, both new names, were
\* validated against their models and registered, and the call was
\* answered 200.
C34_Witness ==
    /\ Injected
    /\ replies[1].status = 200
    /\ LET P == replies[1].payload
       IN /\ Len(P) = 2
          /\ P[1].type = "cli" /\ P[2].type = "image"
          /\ replies[1].dispatched = << "CLIResource", "ImageResource" >>
          /\ \A k \in 1..2 :
                /\ replies[1].before["resource"][P[k].name] = Absent
                /\ registry["resource"][P[k].name] = replies[1].req.val

\* C37 as stated: an error envelope carries the request id of the message
\* whose handling failed, or none when that message did not validate as an
\* envelope; it never carries the request id of an earlier message.
C37_ErrorCarriesOwnId ==
    ws # NoStream =>
        \A j \in 1..Len(ws.out) :
            LET env == ws.out[j]
            IN env.type = "error" =>
                  /\ (ws.seen[env.re] # "invalid" => env.request_id = env.re)
                  /\ env.request_id \notin 1..(env.re - 1)

\* C38: a step of the dispatcher (a notify_* call, a task's step, a
\* done-callback) leaves the subscription table as it is; only the
\* subscribe and unsubscribe handlers, external to the dispatcher, write it.
C38_TableOnlyConsulted ==
    [][(tasks' # tasks \/ ready' # ready \/ tracked' # tracked \/ call' # call)
          => subs' = subs]_vars

\* C38, its case: inside a request context a resource-changed notification
\* ran for a uri that is no key of the table; it sent nothing and the table
\* still has no entry for the uri.
C38_Witness ==
    \E i \in Ids :
        /\ tasks[i].kind = "res_change"
        /\ tasks[i].ctx
        /\ tasks[i].st = "done"
        /\ ~tasks[i].sent
        /\ subs[tasks[i].uri] = NoEntry

\* C39: when the registry emits Changed for a resource and the observer
\* requests the resource-changed notification, the uri of the request is the
\* one the loader lookup gives for the name and the value the registry holds
\* after the replace.
C39_UriOfNewValue ==
    [][(/\ Len(oplog') = Len(oplog) + 1
        /\ oplog'[Len(oplog')].kind = "resource"
        /\ oplog'[Len(oplog')].ev = "changed"
        /\ Len(oplog'[Len(oplog')].coros) = 1)
          => LET op == oplog'[Len(oplog')]
                 stored == registry'["resource"][op.name]
             IN op.coros[1].uri = CreateUri(get_resource_loader(stored), op.name)]_vars

====
